---- MODULE Spec2Model ----
(***************************************************************************)
(* k-geocode: the provider-fallback orchestrator (GeocodingService.Geocode)*)
(* over the vWorld and Kakao adapters and the test mock, and the batch     *)
(* executor (GeocodingService.GeocodeBatch) that runs it in one goroutine  *)
(* per address. The goroutines share the per-provider disable flags, the   *)
(* semaphore channel, the WaitGroup and the result slice.                  *)
(*                                                                         *)
(* Conventions:                                                            *)
(*  - an address is a sequence of characters over Alphabet; "H" stands for *)
(*    any Hangul rune, "a" for any other letter, " " for ASCII space and   *)
(*    "F" for the full-width space U+3000;                                 *)
(*  - a coordinate is an integer number of 1e-7 degrees;                   *)
(*  - timestamps and durations of the responses are left out;              *)
(*  - the Korean literals of vworld.go:247 and :262 are written KeyWordKo  *)
(*    and "no results".                                                    *)
(***************************************************************************)
EXTENDS Integers, Sequences, FiniteSets, TLC

\* Longest raw address the callers submit.
MaxAddrLen == 2

Alphabet == {"H", "a", " ", "F"}

RECURSIVE SeqsUpTo(_)
SeqsUpTo(n) ==
    IF n = 0 THEN {<<>>}
    ELSE LET shorter == SeqsUpTo(n - 1)
         IN shorter \cup {Append(s, ch) : s \in {t \in shorter : Len(t) = n - 1}, ch \in Alphabet}

AllAddresses == SeqsUpTo(MaxAddrLen)

(***************************************************************************)
(* Address utilities                                                       *)
(***************************************************************************)
normalizeSpecialChars(s) == [i \in 1..Len(s) |-> IF s[i] = "F" THEN " " ELSE s[i]]

\* unicode.IsSpace: ASCII space and U+3000 both count.
IsSpace(ch) == ch \in {" ", "F"}

RECURSIVE TrimLeft(_)
TrimLeft(s) == IF s # <<>> /\ IsSpace(Head(s)) THEN TrimLeft(Tail(s)) ELSE s

RECURSIVE TrimRight(_)
TrimRight(s) ==
    IF s # <<>> /\ IsSpace(s[Len(s)]) THEN TrimRight(SubSeq(s, 1, Len(s) - 1)) ELSE s

TrimSpace(s) == TrimRight(TrimLeft(s))

\* regexp `\s+` -> " ": RE2's \s is ASCII-only, so only " " runs collapse.
RECURSIVE CollapseSpaces(_)
CollapseSpaces(s) ==
    IF Len(s) < 2 THEN s
    ELSE IF s[1] = " " /\ s[2] = " " THEN CollapseSpaces(Tail(s))
    ELSE <<s[1]>> \o CollapseSpaces(Tail(s))

NormalizeAddress(address) == CollapseSpaces(TrimSpace(normalizeSpecialChars(address)))

IsValidAddressNoLength(address) ==
    /\ TrimSpace(address) # <<>>
    /\ \E i \in 1..Len(address) : address[i] = "H"

IsValidAddress(address) ==
    /\ TrimSpace(address) # <<>>
    /\ ~(Len(address) < 2)
    /\ \E i \in 1..Len(address) : address[i] = "H"

(***************************************************************************)
(* Coordinate utilities (1e-7 degree units)                                *)
(***************************************************************************)
\* math.Round(val*1e6)/1e6: to the nearest 1e-6, ties away from zero.
RoundToSixDecimalHalfUp(val) == ((val + 5) \div 10) * 10

RoundToSixDecimal(val) ==
    LET a == IF val < 0 THEN -val ELSE val
        r == ((a + 5) \div 10) * 10
    IN IF val < 0 THEN -r ELSE r

ValidateCoordinateExclusive(latitude, longitude) ==
    /\ latitude > -900000000 /\ latitude < 900000000
    /\ longitude > -1800000000 /\ longitude < 1800000000

\* Both bounds of both ranges are inclusive.
ValidateCoordinate(latitude, longitude) ==
    /\ latitude >= -900000000 /\ latitude <= 900000000
    /\ longitude >= -1800000000 /\ longitude <= 1800000000

(***************************************************************************)
(* Error classifier                                                        *)
(***************************************************************************)
ErrorTypes == {"NOT_FOUND", "INVALID_INPUT", "SYSTEM_FAILURE", "TIMEOUT",
               "RATE_LIMIT_EXCEEDED", "UNAUTHORIZED"}

NoErrorText == "<nil>"

\* A Go error value: kind "nil", "classified" (*ClassifiedError) or "opaque".
NilError == [kind |-> "nil", Type |-> "", text |-> "", Retriable |-> FALSE, Fallback |-> FALSE]

OpaqueError(text) ==
    [kind |-> "opaque", Type |-> "", text |-> text, Retriable |-> FALSE, Fallback |-> FALSE]

NewClassifiedErrorAllFallback(errorType, message, original) ==
    [kind |-> "classified", Type |-> errorType,
     text |-> "[" \o errorType \o "] " \o message \o ": " \o original,
     Retriable |-> TRUE, Fallback |-> TRUE]

NewClassifiedErrorByCause(errorType, message, original) ==
    [kind |-> "classified", Type |-> errorType,
     text |-> "[" \o errorType \o "] " \o message \o ": " \o original,
     Retriable |-> errorType \in {"NOT_FOUND", "SYSTEM_FAILURE", "TIMEOUT", "RATE_LIMIT_EXCEEDED"},
     Fallback |-> original = NoErrorText]

NewClassifiedError(errorType, message, original) ==
    [kind |-> "classified", Type |-> errorType,
     text |-> "[" \o errorType \o "] " \o message \o ": " \o original,
     Retriable |-> errorType \in {"NOT_FOUND", "SYSTEM_FAILURE", "TIMEOUT", "RATE_LIMIT_EXCEEDED"},
     Fallback |-> errorType \in {"NOT_FOUND", "SYSTEM_FAILURE", "TIMEOUT", "RATE_LIMIT_EXCEEDED"}]

IsClassifiedErrorAny(err) == TRUE

IsClassifiedError(err) == err.kind = "classified"

ErrAddressNotFound == "address not found"
ErrInvalidAddress == "invalid address format"
ErrAPIKeyInvalid == "API key is invalid or expired"
ErrQuotaExceeded == "daily quota exceeded"

(***************************************************************************)
(* Provider results                                                        *)
(***************************************************************************)
\* *model.ProviderResult; nil is the nil pointer.
NilResult == [nil |-> TRUE, Success |-> FALSE, Latitude |-> 0, Longitude |-> 0, Error |-> ""]

FailedResult(text) ==
    [nil |-> FALSE, Success |-> FALSE, Latitude |-> 0, Longitude |-> 0, Error |-> text]

SuccessResult(lat, lng) ==
    [nil |-> FALSE, Success |-> TRUE, Latitude |-> lat, Longitude |-> lng, Error |-> ""]

\* What a provider call hands back: (result, err).
Ret(result, err) == [result |-> result, err |-> err]

NoMatchAsError(text) ==
    [result |-> NilResult,
     err |-> [kind |-> "classified", Type |-> "NOT_FOUND",
              text |-> "[NOT_FOUND] " \o text \o ": <nil>",
              Retriable |-> TRUE, Fallback |-> TRUE]]

\* `return &model.ProviderResult{Success: false, Error: ...}, nil`: the API
\* answered and had no match.
NoMatch(text) == Ret(FailedResult(text), NilError)

(***************************************************************************)
(* The external HTTP APIs: what one GET can answer                         *)
(***************************************************************************)
\* A numeric string of the JSON body: empty, unparsable, or a number.
EmptyStr == [tag |-> "empty", v |-> 0]
BadStr == [tag |-> "bad", v |-> 0]
NumStr(v) == [tag |-> "num", v |-> v]

\* net: the transport error text ("" when the exchange completed); code: the
\* HTTP status; json: whether the body decodes; status/errText/x/y: vWorld's
\* response.status, response.error.text and response.result.point; ndocs/x/y:
\* Kakao's documents and the first document's x and y.
HTTPResponse(net, code, json, status, errText, ndocs, x, y) ==
    [net |-> net, code |-> code, json |-> json, status |-> status,
     errText |-> errText, ndocs |-> ndocs, x |-> x, y |-> y]

TransportError(text) == HTTPResponse(text, 0, FALSE, "", "", 0, EmptyStr, EmptyStr)
StatusOnly(code) == HTTPResponse("", code, FALSE, "", "", 0, EmptyStr, EmptyStr)
UndecodableBody == HTTPResponse("", 200, FALSE, "", "", 0, EmptyStr, EmptyStr)
VWorldBody(status, errText, x, y) == HTTPResponse("", 200, TRUE, status, errText, 0, x, y)
KakaoBody(ndocs, x, y) == HTTPResponse("", 200, TRUE, "", "", ndocs, x, y)

KeyWordKo == "<injeungki>"

\* Seoul City Hall with a seventh decimal; a latitude that rounds out of range.
Deg(whole, frac) == whole * 10000000 + frac
GoodLat == Deg(37, 5665347)
GoodLng == Deg(126, 9779694)
EdgeLat == Deg(90, 5)
\* The ends of the WGS84 ranges, a little beyond them yet rounding onto them.
PoleLat == Deg(90, 4)
DateLineLng == Deg(180, 4)

ErrorStatuses == {400, 401, 403, 429, 500}

VWorldResponses ==
    {TransportError("context canceled")}
    \cup {StatusOnly(c) : c \in ErrorStatuses}
    \cup {UndecodableBody}
    \cup {VWorldBody("ERROR", t, EmptyStr, EmptyStr) :
              t \in {"INVALID_AUTH_KEY", "PARAM_REQUIRED", KeyWordKo \o " error"}}
    \cup {VWorldBody("NOT_FOUND", "", EmptyStr, EmptyStr),
          VWorldBody("OK", "", EmptyStr, NumStr(GoodLat)),
          VWorldBody("OK", "", BadStr, NumStr(GoodLat)),
          VWorldBody("OK", "", NumStr(GoodLng), BadStr),
          VWorldBody("OK", "", NumStr(GoodLng), NumStr(GoodLat)),
          VWorldBody("OK", "", NumStr(GoodLng), NumStr(EdgeLat))}

KakaoResponses ==
    {TransportError("context canceled")}
    \cup {StatusOnly(c) : c \in ErrorStatuses}
    \cup {UndecodableBody}
    \cup {KakaoBody(0, EmptyStr, EmptyStr),
          KakaoBody(1, BadStr, NumStr(GoodLat)),
          KakaoBody(1, NumStr(GoodLng), BadStr),
          KakaoBody(1, NumStr(GoodLng), NumStr(GoodLat)),
          KakaoBody(1, NumStr(GoodLng), NumStr(EdgeLat))}

Contains(s, sub) ==
    \E i \in 1..(Len(s) - Len(sub) + 1) : SubSeq(s, i, i + Len(sub) - 1) = sub

ParseFloatError(s) == "strconv.ParseFloat: parsing " \o s.tag \o ": invalid syntax"

(***************************************************************************)
(* vWorld adapter                                                          *)
(***************************************************************************)
\* One GET of the given type, answered by r.
geocodeWithType(address, addrType, r) ==
    IF r.net # "" THEN
        Ret(NilResult, NewClassifiedError("SYSTEM_FAILURE", "HTTP request failed", r.net))
    ELSE IF r.code # 200 THEN
        CASE r.code = 401 ->
               Ret(NilResult, NewClassifiedError("UNAUTHORIZED", "Invalid API key", ErrAPIKeyInvalid))
          [] r.code = 429 ->
               Ret(NilResult, NewClassifiedError("RATE_LIMIT_EXCEEDED", "Rate limit exceeded", ErrQuotaExceeded))
          [] OTHER ->
               Ret(NilResult, NewClassifiedError("SYSTEM_FAILURE",
                       "API returned status " \o ToString(r.code), NoErrorText))
    ELSE IF ~r.json THEN
        Ret(NilResult, OpaqueError("failed to decode vWorld response: invalid character"))
    ELSE IF r.status = "ERROR" THEN
        IF Contains(r.errText, KeyWordKo) \/ Contains(r.errText, "AUTH")
        THEN Ret(NilResult, NewClassifiedError("UNAUTHORIZED", r.errText, NoErrorText))
        ELSE Ret(FailedResult("vWorld API error: " \o r.errText), NilError)
    ELSE IF r.status # "OK" \/ r.x = EmptyStr \/ r.y = EmptyStr THEN
        NoMatch(IF r.status = "NOT_FOUND" THEN "NOT_FOUND: no results"
                ELSE IF r.status # "OK" THEN r.status \o ": " \o r.errText
                ELSE "address not found")
    ELSE IF r.x.tag # "num" THEN
        Ret(NilResult, OpaqueError("invalid longitude: " \o ParseFloatError(r.x)))
    ELSE IF r.y.tag # "num" THEN
        Ret(NilResult, OpaqueError("invalid latitude: " \o ParseFloatError(r.y)))
    ELSE Ret(SuccessResult(r.y.v, r.x.v), NilError)

ToUpperNone(s) == s

ToUpper(s) ==
    CASE s = "road" -> "ROAD"
      [] s = "parcel" -> "PARCEL"
      [] OTHER -> s

GeocodeWithTypeParcelFirst(address, addrType, r1, r2) ==
    IF TrimSpace(address) = <<>> THEN Ret(FailedResult(ErrInvalidAddress), NilError)
    ELSE IF ToUpper(addrType) \in {"ROAD", "PARCEL"} THEN
        LET t == geocodeWithType(TrimSpace(address), ToUpper(addrType), r1)
        IN IF t.err # NilError THEN Ret(NilResult, t.err) ELSE t
    ELSE
        LET road == geocodeWithType(TrimSpace(address), "ROAD", r1)
            parcel == geocodeWithType(TrimSpace(address), "PARCEL", r2)
        IN IF parcel.err = NilError /\ parcel.result.Success THEN parcel
           ELSE IF road.err = NilError /\ road.result.Success THEN road
           ELSE IF parcel.err # NilError THEN Ret(NilResult, parcel.err)
           ELSE NoMatch(ErrAddressNotFound)

\* r1 answers the first GET and r2 the second, when there is one.
GeocodeWithType(address, addrType, r1, r2) ==
    IF TrimSpace(address) = <<>> THEN Ret(FailedResult(ErrInvalidAddress), NilError)
    ELSE IF ToUpper(addrType) \in {"ROAD", "PARCEL"} THEN
        LET t == geocodeWithType(TrimSpace(address), ToUpper(addrType), r1)
        IN IF t.err # NilError THEN Ret(NilResult, t.err) ELSE t
    ELSE
        LET road == geocodeWithType(TrimSpace(address), "ROAD", r1)
            parcel == geocodeWithType(TrimSpace(address), "PARCEL", r2)
        IN IF road.err = NilError /\ road.result.Success THEN road
           ELSE IF parcel.err = NilError /\ parcel.result.Success THEN parcel
           ELSE IF parcel.err # NilError THEN Ret(NilResult, parcel.err)
           ELSE NoMatch(ErrAddressNotFound)

VWorldGeocode(address, r1, r2) == GeocodeWithType(address, "", r1, r2)

\* One GET as it went over the wire: the answer r, tagged with the `type`
\* parameter of the request (vWorld) or "address" (Kakao's address search).
Sent(req, r) == [req |-> req] @@ r

\* The GETs GeocodeWithType makes: the second one is sent only when the
\* first did not give a match.
VWorldSent(address, addrType, r1, r2) ==
    IF TrimSpace(address) = <<>> THEN <<>>
    ELSE IF ToUpper(addrType) \in {"ROAD", "PARCEL"} THEN <<Sent(ToUpper(addrType), r1)>>
    ELSE LET road == geocodeWithType(TrimSpace(address), "ROAD", r1)
         IN IF road.err = NilError /\ road.result.Success
            THEN <<Sent("ROAD", r1)>>
            ELSE <<Sent("ROAD", r1), Sent("PARCEL", r2)>>

(***************************************************************************)
(* Kakao adapter                                                           *)
(***************************************************************************)
KakaoGeocode(address, r) ==
    IF TrimSpace(address) = <<>> THEN Ret(FailedResult(ErrInvalidAddress), NilError)
    ELSE IF r.net # "" THEN
        Ret(NilResult, NewClassifiedError("SYSTEM_FAILURE", "HTTP request failed", r.net))
    ELSE IF r.code # 200 THEN
        CASE r.code = 401 ->
               Ret(NilResult, NewClassifiedError("UNAUTHORIZED", "Invalid API key", ErrAPIKeyInvalid))
          [] r.code = 400 ->
               Ret(NilResult, NewClassifiedError("INVALID_INPUT", "Bad request", NoErrorText))
          [] r.code = 429 ->
               Ret(NilResult, NewClassifiedError("RATE_LIMIT_EXCEEDED", "Rate limit exceeded", ErrQuotaExceeded))
          [] OTHER ->
               Ret(NilResult, NewClassifiedError("SYSTEM_FAILURE",
                       "API returned status " \o ToString(r.code), NoErrorText))
    ELSE IF ~r.json THEN
        Ret(NilResult, OpaqueError("failed to decode Kakao response: invalid character"))
    ELSE IF r.ndocs = 0 THEN NoMatch(ErrAddressNotFound)
    ELSE IF r.x.tag # "num" THEN
        Ret(NilResult, OpaqueError("invalid longitude: " \o ParseFloatError(r.x)))
    ELSE IF r.y.tag # "num" THEN
        Ret(NilResult, OpaqueError("invalid latitude: " \o ParseFloatError(r.y)))
    ELSE Ret(SuccessResult(r.y.v, r.x.v), NilError)

KakaoSent(address, r) == IF TrimSpace(address) = <<>> THEN <<>> ELSE <<Sent("address", r)>>

(***************************************************************************)
(* Test mock (service tests): Geocode returns whatever the test configured *)
(***************************************************************************)
MockOutcomes ==
    {Ret(NilResult, NewClassifiedError(t, "mock failure", NoErrorText)) : t \in ErrorTypes}
    \cup {Ret(NilResult, OpaqueError("unexpected error")),
          Ret(NilResult, NilError),
          Ret(FailedResult(""), NilError),
          Ret(SuccessResult(GoodLat, GoodLng), NilError),
          Ret(SuccessResult(EdgeLat, GoodLng), NilError),
          Ret(SuccessResult(PoleLat, DateLineLng), NilError),
          Ret(SuccessResult(-PoleLat, -DateLineLng), NilError)}

(***************************************************************************)
(* State                                                                   *)
(***************************************************************************)
VARIABLES
    providers,  \* GeocodingService.providers: <<[name, impl, available]>>, in priority order
    pstate,     \* per provider: [disabled, disableReason]
    frame,      \* per caller: the activation of Geocode it is in
    trace,      \* per caller: what each loop iteration of the current call did (history)
    snap,       \* per caller: pstate as it was when the current call started (history)
    wire,       \* per caller: the HTTP answers each loop iteration received (history)
    config,     \* Client.config
    batch,      \* the activation of GeocodeBatch: its locals, channel and WaitGroup
    client      \* what New returned, and the activation of Client.GeocodeBatch

vars == <<providers, pstate, frame, trace, snap, wire, config, batch, client>>

AllCallers == {"c1", "c2"}

VWorld == [name |-> "vWorld", impl |-> "vWorld", available |-> TRUE]
Kakao == [name |-> "Kakao", impl |-> "Kakao", available |-> TRUE]
Mock(name, available) == [name |-> name, impl |-> "mock", available |-> available]

\* What client.New and Coordinator.initProviders can build.
ProductionConfigs == {<<VWorld>>, <<Kakao>>, <<VWorld, Kakao>>}

\* What the service tests build: no provider at all, or two mocks, each
\* available or not.
TestConfigs == {<<>>} \cup {<<Mock("Provider1", a), Mock("Provider2", b)>> : a, b \in BOOLEAN}

Enabled == [disabled |-> FALSE, disableReason |-> ""]

\* *model.GeocodingResponse
GeocodingResponse(success, hasCoord, lat, lng, provider, atts, error) ==
    [Success |-> success, hasCoordinate |-> hasCoord, Latitude |-> lat, Longitude |-> lng,
     Provider |-> provider, Attempts |-> atts, Error |-> error]

NoResponse == GeocodingResponse(FALSE, FALSE, 0, 0, "", <<>>, "")

ProviderAttemptAlwaysOk(provider, success, error) ==
    [Provider |-> provider, Success |-> TRUE, Error |-> error]

ProviderAttempt(provider, success, error) ==
    [Provider |-> provider, Success |-> success, Error |-> error]

\* resp and err are the two values Geocode returns; cancelled is whether the
\* ctx it was called with is done.
IdleFrame ==
    [pc |-> "idle", address |-> <<>>, addressType |-> "", i |-> 0,
     attempts |-> <<>>, resp |-> NoResponse, err |-> NilError, cancelled |-> FALSE]

Skipped == [invoked |-> FALSE, ret |-> Ret(NilResult, NilError)]
Invoked(ret) == [invoked |-> TRUE, ret |-> ret]

(***************************************************************************)
(* Provider state: IsAvailable / Disable / IsDisabled / GetDisableReason   *)
(***************************************************************************)
VWorldIsAvailable(st) == ~st.disabled
KakaoIsAvailable(st) == TRUE
MockIsAvailable(p, st) == p.available /\ ~st.disabled

IsAvailable(n) ==
    CASE providers[n].impl = "vWorld" -> VWorldIsAvailable(pstate[n])
      [] providers[n].impl = "Kakao" -> KakaoIsAvailable(pstate[n])
      [] OTHER -> MockIsAvailable(providers[n], pstate[n])

VWorldDisableNothing(st, reason) == st
VWorldDisableToggle(st, reason) == [disabled |-> ~st.disabled, disableReason |-> reason]
VWorldDisable(st, reason) == [disabled |-> TRUE, disableReason |-> reason]
MockDisable(st, reason) == [disabled |-> TRUE, disableReason |-> reason]
KakaoDisable(st, reason) == [disabled |-> TRUE, disableReason |-> reason]

Disable(n, reason) ==
    CASE providers[n].impl = "vWorld" -> VWorldDisable(pstate[n], reason)
      [] providers[n].impl = "Kakao" -> KakaoDisable(pstate[n], reason)
      [] OTHER -> MockDisable(pstate[n], reason)

IsDisabled(n) == pstate[n].disabled
GetDisableReason(n) == pstate[n].disableReason

(***************************************************************************)
(* GeocodingService.Geocode                                                *)
(***************************************************************************)
normalizeResponseUnchecked(result, providerName) ==
    GeocodingResponse(TRUE, TRUE, RoundToSixDecimal(result.Latitude),
                      RoundToSixDecimal(result.Longitude), providerName, <<>>, "")

normalizeResponse(result, providerName) ==
    LET lat == RoundToSixDecimal(result.Latitude)
        lng == RoundToSixDecimal(result.Longitude)
    IN IF ~ValidateCoordinate(lat, lng)
       THEN GeocodingResponse(FALSE, FALSE, 0, 0, providerName, <<>>, "invalid coordinates")
       ELSE GeocodingResponse(TRUE, TRUE, lat, lng, providerName, <<>>, "")

AllFailedWithoutTrail(atts) ==
    GeocodingResponse(FALSE, FALSE, 0, 0, "none", <<>>,
                      "all providers failed to geocode the address")

AllFailed(atts) ==
    GeocodingResponse(FALSE, FALSE, 0, 0, "none", atts,
                      "all providers failed to geocode the address")

NotAvailableAttemptAsNotFound(name) == ProviderAttempt(name, FALSE, "address not found")

\* Lines 704-708: the attempt recorded for a provider that is not available.
NotAvailableAttempt(name) == ProviderAttempt(name, FALSE, "provider not available")

ReturnWithError(f, atts, resp) ==
    [f EXCEPT !.pc = "done", !.attempts = atts, !.resp = resp,
              !.err = IF resp.Success THEN NilError ELSE OpaqueError(resp.Error)]

\* `return resp, nil`
Return(f, atts, resp) ==
    [f EXCEPT !.pc = "done", !.attempts = atts, !.resp = resp, !.err = NilError]

ContinueRetry(f, atts) == [f EXCEPT !.pc = "check", !.attempts = atts]

ContinueGiveUp(f, atts) == Return(f, atts, AllFailed(atts))

\* `continue`: on to the next provider, or out of the loop when there is none.
Continue(f, atts) ==
    IF f.i < Len(providers)
    THEN [f EXCEPT !.pc = "check", !.i = f.i + 1, !.attempts = atts]
    ELSE Return(f, atts, AllFailed(atts))

EnterLoopAtCall(f) ==
    IF Len(providers) > 0
    THEN [f EXCEPT !.pc = "call", !.i = 1]
    ELSE Return(f, <<>>, AllFailed(<<>>))

\* `for i, p := range s.providers`: the first iteration, or none at all.
EnterLoop(f) ==
    IF Len(providers) > 0
    THEN [f EXCEPT !.pc = "check", !.i = 1]
    ELSE Return(f, <<>>, AllFailed(<<>>))

\* Lines 671-697: normalise, validate, enter the loop.
FrameAtEntry(address, addressType) ==
    LET f == [IdleFrame EXCEPT !.address = address, !.addressType = addressType]
    IN IF ~IsValidAddress(NormalizeAddress(address))
       THEN Return(f, <<>>,
                GeocodingResponse(FALSE, FALSE, 0, 0, "", <<>>, "invalid address format"))
       ELSE EnterLoop(f)

GeocodeCall(c, address, addressType) ==
    /\ frame[c].pc \in {"idle", "done"}
    /\ frame' = [frame EXCEPT ![c] = FrameAtEntry(address, addressType)]
    /\ trace' = [trace EXCEPT ![c] = <<>>]
    /\ snap' = [snap EXCEPT ![c] = pstate]
    /\ wire' = [wire EXCEPT ![c] = <<>>]
    /\ UNCHANGED <<providers, pstate, config, client>>

\* Geocode called on its own, outside a batch.
GeocodeStart(c, address, addressType) ==
    /\ GeocodeCall(c, address, addressType)
    /\ UNCHANGED batch

\* Lines 698-710: the availability check of provider i.
CheckAvailable(c) ==
    LET f == frame[c] IN
    /\ f.pc = "check"
    /\ IF ~IsAvailable(f.i)
       THEN /\ frame' = [frame EXCEPT ![c] =
                   Continue(f, Append(f.attempts, NotAvailableAttempt(providers[f.i].name)))]
            /\ trace' = [trace EXCEPT ![c] = Append(@, Skipped)]
            /\ wire' = [wire EXCEPT ![c] = Append(@, <<>>)]
       ELSE /\ frame' = [frame EXCEPT ![c].pc = "call"]
            /\ UNCHANGED <<trace, wire>>
    /\ UNCHANGED <<providers, pstate, snap, config, batch, client>>

\* The caller cancels the ctx of the call under way.
Cancel(c) ==
    /\ frame[c].pc \in {"check", "call"}
    /\ ~frame[c].cancelled
    /\ frame' = [frame EXCEPT ![c].cancelled = TRUE]
    /\ UNCHANGED <<providers, pstate, trace, snap, wire, config, batch, client>>

\* httpClient.Do(req) for a request made with ctx: once ctx is done the call
\* fails with the context's error, otherwise the API answers.
Do(cancelled, Resps) ==
    IF cancelled THEN {TransportError("context canceled")} ELSE Resps

\* One provider call: what it returns and the HTTP answers it received.
Exchange(ret, sent) == [ret |-> ret, sent |-> sent]

CallExchangesPlain(f, VResps, KResps, Mocks) ==
    LET p == providers[f.i]
        address == NormalizeAddress(f.address)
    IN CASE p.impl = "vWorld" ->
              {Exchange(VWorldGeocode(address, r1, r2),
                        VWorldSent(address, "", r1, r2)) : r1, r2 \in Do(f.cancelled, VResps)}
         [] p.impl = "Kakao" ->
              {Exchange(KakaoGeocode(address, r), KakaoSent(address, r)) :
                  r \in Do(f.cancelled, KResps)}
         [] OTHER -> {Exchange(ret, <<>>) : ret \in Mocks}

\* Lines 717-726: which call the provider receives, and what it can return.
CallExchanges(f, VResps, KResps, Mocks) ==
    LET p == providers[f.i]
        address == NormalizeAddress(f.address)
    IN CASE p.impl = "vWorld" /\ f.addressType # "" ->
              {Exchange(GeocodeWithType(address, f.addressType, r1, r2),
                        VWorldSent(address, f.addressType, r1, r2)) :
                  r1, r2 \in Do(f.cancelled, VResps)}
         [] p.impl = "vWorld" /\ f.addressType = "" ->
              {Exchange(VWorldGeocode(address, r1, r2),
                        VWorldSent(address, "", r1, r2)) : r1, r2 \in Do(f.cancelled, VResps)}
         [] p.impl = "Kakao" ->
              {Exchange(KakaoGeocode(address, r), KakaoSent(address, r)) :
                  r \in Do(f.cancelled, KResps)}
         [] OTHER -> {Exchange(ret, <<>>) : ret \in Mocks}

CallOutcomes(f, VResps, KResps, Mocks) ==
    {x.ret : x \in CallExchanges(f, VResps, KResps, Mocks)}

OnUnauthorizedStop(f, failed, err) ==
    [frame |-> Return(f, failed,
           GeocodingResponse(FALSE, FALSE, 0, 0, providers[f.i].name, failed, err.text)),
     pstate |-> pstate[f.i]]

\* Lines 751-759: an Unauthorized error disables the provider and falls back.
OnUnauthorized(f, failed, err) ==
    [frame |-> Continue(f, failed),
     pstate |-> Disable(f.i, "Authentication failed: " \o err.text)]

OnFallbackErrorDisabling(f, failed, err) ==
    [frame |-> Continue(f, failed),
     pstate |-> Disable(f.i, "Provider failed: " \o err.text)]

\* Lines 773-774: any other classified error that allows fallback goes on to
\* the next provider and leaves the provider as it is.
OnFallbackError(f, failed, err) ==
    [frame |-> Continue(f, failed), pstate |-> pstate[f.i]]

\* Lines 729-829: what the orchestrator does with (result, err) of provider i.
\* The value is [frame, pstate]: the caller's frame and provider i's state after it.
Handle(f, ret) ==
    LET name == providers[f.i].name
        err == ret.err
        failed == Append(f.attempts, ProviderAttempt(name, FALSE, err.text))
    IN IF err # NilError THEN
          IF IsClassifiedError(err) THEN
             IF err.Type = "UNAUTHORIZED" THEN OnUnauthorized(f, failed, err)
             ELSE IF err.Type = "RATE_LIMIT_EXCEEDED" THEN
                [frame |-> Continue(f, failed),
                 pstate |-> Disable(f.i, "Rate limit exceeded: " \o err.text)]
             ELSE IF ~err.Fallback THEN
                [frame |-> Return(f, failed,
                       GeocodingResponse(FALSE, FALSE, 0, 0, name, failed, err.text)),
                 pstate |-> pstate[f.i]]
             ELSE OnFallbackError(f, failed, err)
          ELSE [frame |-> Continue(f, failed), pstate |-> pstate[f.i]]
       ELSE IF ~ret.result.nil /\ ret.result.Success THEN
          LET atts == Append(f.attempts, ProviderAttempt(name, TRUE, ""))
              normalized == normalizeResponse(ret.result, name)
          IN [frame |-> Return(f, atts, [normalized EXCEPT !.Attempts = atts]),
              pstate |-> pstate[f.i]]
       ELSE [frame |-> Continue(f, Append(f.attempts,
                           ProviderAttempt(name, FALSE, "address not found"))),
             pstate |-> pstate[f.i]]

\* Lines 717-829: provider i is invoked and its outcome handled.
CallProvider(c, VResps, KResps, Mocks) ==
    LET f == frame[c] IN
    /\ f.pc = "call"
    /\ \E x \in CallExchanges(f, VResps, KResps, Mocks) :
          LET h == Handle(f, x.ret)
          IN /\ frame' = [frame EXCEPT ![c] = h.frame]
             /\ pstate' = [pstate EXCEPT ![f.i] = h.pstate]
             /\ trace' = [trace EXCEPT ![c] = Append(@, Invoked(x.ret))]
             /\ wire' = [wire EXCEPT ![c] = Append(@, x.sent)]
    /\ UNCHANGED <<providers, snap, config, batch, client>>

\* Disable called from outside the orchestrator.
ExternalDisable(n) ==
    /\ n \in 1..Len(providers)
    /\ pstate' = [pstate EXCEPT ![n] = Disable(n, "disabled by operator")]
    /\ UNCHANGED <<providers, frame, trace, snap, wire, config, batch, client>>

(***************************************************************************)
(* Health reporting                                                        *)
(***************************************************************************)
\* The first loop of HealthCheck: one ProviderStatus per provider.
ProviderStatuses == [n \in 1..Len(providers) |->
                        [Name |-> providers[n].name, Available |-> IsAvailable(n)]]

\* Coordinator.HealthCheck: Healthy starts true and is set to false when the
\* second loop finds no available entry.
HealthCheck ==
    LET allUnavailable == \A n \in 1..Len(ProviderStatuses) : ~ProviderStatuses[n].Available
    IN [Healthy |-> IF allUnavailable THEN FALSE ELSE TRUE, Providers |-> ProviderStatuses]

\* Client.IsAvailable: true at the first available provider.
ClientIsAvailable == \E n \in 1..Len(providers) : IsAvailable(n)

\* HealthHandler.Health: the HTTP status of GET /health.
HealthStatusCode ==
    LET status == IF ~HealthCheck.Healthy THEN "unhealthy" ELSE "healthy"
    IN IF status = "unhealthy" THEN 503 ELSE 200

\* HealthHandler.Ready: the HTTP status of GET /ready.
ReadyStatusCode == IF ~HealthCheck.Healthy THEN 503 ELSE 200

(***************************************************************************)
(* Client configuration                                                    *)
(***************************************************************************)
\* DefaultConfig(): no key, and the defaults of the other fields. Timeout is
\* in seconds.
DefaultConfig ==
    [VWorldAPIKey |-> "", KakaoAPIKey |-> "", Timeout |-> 5, MaxRetries |-> 2,
     LogLevel |-> "info", ConcurrentLimit |-> 10]

\* Config{}: the zero value of every field.
ZeroConfig ==
    [VWorldAPIKey |-> "", KakaoAPIKey |-> "", Timeout |-> 0, MaxRetries |-> 0,
     LogLevel |-> "", ConcurrentLimit |-> 0]

\* What the tests build: DefaultConfig() with both keys and a limit.
Config(concurrentLimit) ==
    [DefaultConfig EXCEPT !.VWorldAPIKey = "vworld-key", !.KakaoAPIKey = "kakao-key",
                          !.ConcurrentLimit = concurrentLimit]

validLevels == {"debug", "info", "warn", "error"}

\* Config.Validate: the text of the error it returns, "" for nil.
Validate(c) ==
    IF c.VWorldAPIKey = "" /\ c.KakaoAPIKey = ""
    THEN "at least one API key (VWorldAPIKey or KakaoAPIKey) is required"
    ELSE IF c.Timeout < 0 THEN "timeout cannot be negative"
    ELSE IF c.MaxRetries < 0 THEN "maxRetries cannot be negative"
    ELSE IF c.ConcurrentLimit < 1 THEN "concurrentLimit must be at least 1"
    ELSE IF c.ConcurrentLimit > 100 THEN "concurrentLimit cannot exceed 100"
    ELSE IF c.LogLevel # "" /\ c.LogLevel \notin validLevels
         THEN "invalid log level: " \o c.LogLevel
              \o " (must be one of: debug, info, warn, error)"
    ELSE ""

\* Config.SetDefaults: zero-valued fields get their defaults.
SetDefaults(c) ==
    [c EXCEPT !.Timeout = IF @ = 0 THEN 5 ELSE @,
              !.MaxRetries = IF @ = 0 THEN 2 ELSE @,
              !.LogLevel = IF @ = "" THEN "info" ELSE @,
              !.ConcurrentLimit = IF @ = 0 THEN 10 ELSE @]

\* The configurations New accepts, out of limits around both ends of the range.
AcceptedConfigs == {c \in {Config(l) : l \in {0, 1, 10, 101}} : Validate(c) = ""}

\* The providers New builds from the keys, vWorld first.
ProvidersOf(cfg) ==
    (IF cfg.VWorldAPIKey # "" THEN <<VWorld>> ELSE <<>>)
    \o (IF cfg.KakaoAPIKey # "" THEN <<Kakao>> ELSE <<>>)

\* No Client.GeocodeBatch call is under way.
IdleCall == [pc |-> "idle", addresses |-> <<>>, results |-> <<>>, err |-> ""]

NoClient == [state |-> "none", arg |-> ZeroConfig, err |-> "", call |-> IdleCall]

\* The client New returns for an accepted cfg.
ClientOf(cfg) == [state |-> "ok", arg |-> cfg, err |-> "", call |-> IdleCall]

\* `return nil, fmt.Errorf(...)`
NoClientFor(cfg, text) == [state |-> "failed", arg |-> cfg, err |-> text, call |-> IdleCall]

\* client.New as a function: what it returns, and the providers and
\* configuration of the client it built.
NewResult(cfg) ==
    IF Validate(cfg) # ""
    THEN [client |-> NoClientFor(cfg, "invalid config: " \o Validate(cfg)),
          providers |-> <<>>, config |-> ZeroConfig]
    ELSE LET c == SetDefaults(cfg)
         IN IF Len(ProvidersOf(c)) = 0
            THEN [client |-> NoClientFor(cfg, "at least one API key (VWorld or Kakao) is required"),
                  providers |-> <<>>, config |-> ZeroConfig]
            ELSE [client |-> ClientOf(cfg), providers |-> ProvidersOf(c), config |-> c]

\* client.New(cfg): a fresh client (or none) replaces the one held.
New(cfg) ==
    /\ client' = NewResult(cfg).client
    /\ providers' = NewResult(cfg).providers
    /\ pstate' = [n \in 1..Len(providers') |-> Enabled]
    /\ config' = NewResult(cfg).config
    /\ UNCHANGED <<frame, trace, snap, wire, batch>>

(***************************************************************************)
(* GeocodingService.GeocodeBatch                                           *)
(*                                                                         *)
(* batch.pc is where the calling goroutine is: "idle" (not called),        *)
(* "dispatch" (in the `for i, addr` loop, next is the index it spawns      *)
(* next), "wait" (in wg.Wait) or "returned". batch.w[i] is where the       *)
(* goroutine of index i is: "unborn", "spawned" (blocked on `sem <-`),     *)
(* "holding" (inside s.Geocode, frame[i] is its activation) or "finished". *)
(* A nil slot of results is NoResponse.                                    *)
(***************************************************************************)
maxConcurrent == 10

BulkResponse(results, total, success, failed) ==
    [Results |-> results, Summary |-> [Total |-> total, Success |-> success, Failed |-> failed]]

NoBulkResponse == BulkResponse(<<>>, 0, 0, 0)

EmptyBulkResponseCountingOne == BulkResponse(<<>>, 1, 0, 1)

\* Lines 851-854: the response to an empty input; its Summary is the zero value.
EmptyBulkResponse == BulkResponse(<<>>, 0, 0, 0)

IdleBatch ==
    [pc |-> "idle", addresses |-> <<>>, results |-> <<>>, next |-> 0, sem |-> 0, wg |-> 0,
     w |-> <<>>, resp |-> NoBulkResponse, err |-> NilError]

Workers == 1..Len(batch.addresses)

\* Lines 848-867: the empty-input return, or the locals of a run.
BatchCall(addresses) ==
    /\ batch.pc \in {"idle", "returned"}
    /\ Len(addresses) <= Cardinality(DOMAIN frame)
    /\ batch' =
          IF Len(addresses) = 0
          THEN [IdleBatch EXCEPT !.pc = "returned", !.resp = EmptyBulkResponse,
                                 !.err = NilError]
          ELSE [IdleBatch EXCEPT !.pc = "dispatch", !.addresses = addresses,
                                 !.results = [i \in 1..Len(addresses) |-> NoResponse],
                                 !.next = 1,
                                 !.w = [i \in 1..Len(addresses) |-> "unborn"]]
    /\ frame' = [c \in DOMAIN frame |-> IdleFrame]
    /\ trace' = [c \in DOMAIN frame |-> <<>>]
    /\ wire' = [c \in DOMAIN frame |-> <<>>]
    /\ UNCHANGED <<providers, pstate, snap, config>>

\* GeocodingService.GeocodeBatch called directly.
BatchStart(addresses) ==
    /\ BatchCall(addresses)
    /\ UNCHANGED client

\* Lines 870-872: wg.Add(1) and the go statement for the next index.
Dispatch ==
    /\ batch.pc = "dispatch"
    /\ batch' = [batch EXCEPT !.wg = @ + 1,
                              !.w[batch.next] = "spawned",
                              !.next = @ + 1,
                              !.pc = IF batch.next = Len(batch.addresses)
                                     THEN "wait" ELSE "dispatch"]
    /\ UNCHANGED <<providers, pstate, frame, trace, snap, wire, config, client>>

SemHasRoomOne(sem) == sem < 1

SemHasRoomAlways(sem) == TRUE

\* `sem <- struct{}{}` can proceed: the channel's buffer is not full.
SemHasRoom(sem) == sem < maxConcurrent

\* Lines 876-880: the goroutine of index i takes a slot and enters s.Geocode.
WorkerAcquire(i) ==
    /\ i \in Workers
    /\ batch.w[i] = "spawned"
    /\ SemHasRoom(batch.sem)
    /\ batch' = [batch EXCEPT !.sem = @ + 1, !.w[i] = "holding"]
    /\ GeocodeCall(i, batch.addresses[i], "")

\* Lines 880-890: what the goroutine stores for (result, err) of s.Geocode.
WorkerResult(result, err) ==
    IF err # NilError
    THEN GeocodingResponse(FALSE, FALSE, 0, 0, "", <<>>, err.text)
    ELSE result

StoreResultEverywhere(results, idx, result) == [i \in DOMAIN results |-> result]

StoreResultMirrored(results, idx, result) ==
    [results EXCEPT ![Len(results) + 1 - idx] = result]

\* results[idx] = ...
StoreResult(results, idx, result) == [results EXCEPT ![idx] = result]

WorkerFinishKeepingSlot(i) ==
    /\ i \in Workers
    /\ batch.w[i] = "holding"
    /\ frame[i].pc = "done"
    /\ batch' = [batch EXCEPT
          !.results = StoreResult(@, i, WorkerResult(frame[i].resp, frame[i].err)),
          !.wg = @ - 1,
          !.w[i] = "finished"]
    /\ UNCHANGED <<providers, pstate, frame, trace, snap, wire, config, client>>

\* Lines 880-891 and the two defers: s.Geocode has returned; the goroutine
\* stores the outcome, gives the slot back and signals the WaitGroup.
WorkerFinish(i) ==
    /\ i \in Workers
    /\ batch.w[i] = "holding"
    /\ frame[i].pc = "done"
    /\ batch' = [batch EXCEPT
          !.results = StoreResult(@, i, WorkerResult(frame[i].resp, frame[i].err)),
          !.sem = @ - 1,
          !.wg = @ - 1,
          !.w[i] = "finished"]
    /\ UNCHANGED <<providers, pstate, frame, trace, snap, wire, config, client>>

WaitReadyAtOnce(b) == TRUE

\* wg.Wait() returns: the counter is zero.
WaitReady(b) == b.wg = 0

\* Lines 898-912: the response and its summary.
Summary(results, total) ==
    LET successCount == Cardinality({i \in 1..Len(results) : results[i].Success})
    IN BulkResponse(results, total, successCount, total - successCount)

BatchReturnAbort(b) ==
    [b EXCEPT !.pc = "returned",
              !.resp = Summary(b.results, Len(b.addresses)),
              !.err = IF \E i \in 1..Len(b.results) : ~b.results[i].Success
                      THEN OpaqueError("batch failed") ELSE NilError]

\* `return response, nil`
BatchReturn(b) ==
    [b EXCEPT !.pc = "returned",
              !.resp = Summary(b.results, Len(b.addresses)),
              !.err = NilError]

\* Lines 895-922: all goroutines are done; summarise and return.
BatchWait ==
    /\ batch.pc = "wait"
    /\ WaitReady(batch)
    /\ batch' = BatchReturn(batch)
    /\ UNCHANGED <<providers, pstate, frame, trace, snap, wire, config, client>>

(***************************************************************************)
(* Client.GeocodeBatch                                                     *)
(*                                                                         *)
(* client.call.pc is "idle", "service" (inside c.service.GeocodeBatch) or  *)
(* "returned"; call.results and call.err are the two values returned, a    *)
(* nil entry of the list being NilClientResult.                            *)
(***************************************************************************)
MaxAddresses == 100

TooMany(addresses) == Len(addresses) > MaxAddresses

TooManyError == "too many addresses: maximum 100"

NilClientResult == [nil |-> TRUE, Latitude |-> 0, Longitude |-> 0, Provider |-> ""]

\* &Result{Latitude: ..., Longitude: ..., Provider: ...}
ClientResult(resp) ==
    [nil |-> FALSE, Latitude |-> resp.Latitude, Longitude |-> resp.Longitude,
     Provider |-> resp.Provider]

RECURSIVE ConvertResultsDroppingFailures(_)
ConvertResultsDroppingFailures(results) ==
    IF results = <<>> THEN <<>>
    ELSE (IF ~Head(results).Success THEN <<>> ELSE <<ClientResult(Head(results))>>)
         \o ConvertResultsDroppingFailures(Tail(results))

\* The conversion loop: nil for a failed response, a Result otherwise.
ConvertResults(results) ==
    [i \in 1..Len(results) |->
        IF ~results[i].Success THEN NilClientResult ELSE ClientResult(results[i])]

\* Client.GeocodeBatch up to the call of the service: the two early returns,
\* or c.service.GeocodeBatch(ctx, addresses) entered.
ClientGeocodeBatch(addresses) ==
    /\ client.state = "ok"
    /\ client.call.pc \in {"idle", "returned"}
    /\ batch.pc \in {"idle", "returned"}
    /\ IF Len(addresses) = 0
       THEN /\ client' = [client EXCEPT !.call =
                   [pc |-> "returned", addresses |-> addresses, results |-> <<>>, err |-> ""]]
            /\ UNCHANGED <<providers, pstate, frame, trace, snap, wire, config, batch>>
       ELSE IF TooMany(addresses)
       THEN /\ client' = [client EXCEPT !.call =
                   [pc |-> "returned", addresses |-> addresses, results |-> <<>>,
                    err |-> TooManyError]]
            /\ UNCHANGED <<providers, pstate, frame, trace, snap, wire, config, batch>>
       ELSE /\ client' = [client EXCEPT !.call =
                   [pc |-> "service", addresses |-> addresses, results |-> <<>>, err |-> ""]]
            /\ BatchCall(addresses)

\* The service returned: its error goes through, or its results are converted.
ClientBatchReturn ==
    /\ client.call.pc = "service"
    /\ batch.pc = "returned"
    /\ client' = [client EXCEPT
          !.call.pc = "returned",
          !.call.results = IF batch.err # NilError THEN <<>>
                           ELSE ConvertResults(batch.resp.Results),
          !.call.err = IF batch.err # NilError THEN batch.err.text ELSE ""]
    /\ UNCHANGED <<providers, pstate, frame, trace, snap, wire, config, batch>>

(***************************************************************************)
(* Specifications                                                          *)
(***************************************************************************)
InitOf(Configs, Callers, ClientConfigs) ==
    /\ providers \in Configs
    /\ pstate = [n \in 1..Len(providers) |-> Enabled]
    /\ frame = [c \in Callers |-> IdleFrame]
    /\ trace = [c \in Callers |-> <<>>]
    /\ snap = [c \in Callers |-> pstate]
    /\ wire = [c \in Callers |-> <<>>]
    /\ config \in ClientConfigs
    /\ batch = IdleBatch
    /\ client = ClientOf(config)

InitWith(Configs) == InitOf(Configs, AllCallers, {Config(10)})

AddressTypes == {"", "ROAD", "parcel"}

\* One valid and one invalid address.
SampleAddresses == {<<"H", "a">>, <<"a">>}

\* Spec: one caller issuing Geocode calls one after another, against every
\* configuration and everything the providers can answer.
Init == InitWith(ProductionConfigs \cup TestConfigs)

Next ==
    \/ \E a \in SampleAddresses, t \in AddressTypes : GeocodeStart("c1", a, t)
    \/ CheckAvailable("c1")
    \/ CallProvider("c1", VWorldResponses, KakaoResponses, MockOutcomes)

Spec == Init /\ [][Next]_vars

\* SpecAddr: one caller submitting every address up to MaxAddrLen to the
\* production configurations.
FewVWorldResponses ==
    {StatusOnly(401), VWorldBody("NOT_FOUND", "", EmptyStr, EmptyStr),
     VWorldBody("OK", "", NumStr(GoodLng), NumStr(GoodLat))}

FewKakaoResponses ==
    {StatusOnly(400), StatusOnly(429), KakaoBody(0, EmptyStr, EmptyStr),
     KakaoBody(1, NumStr(GoodLng), NumStr(GoodLat))}

FewMockOutcomes ==
    {Ret(NilResult, NewClassifiedError("UNAUTHORIZED", "mock failure", NoErrorText)),
     Ret(FailedResult(""), NilError),
     Ret(SuccessResult(GoodLat, GoodLng), NilError)}

InitAddr == InitWith(ProductionConfigs)

NextAddr ==
    \/ \E a \in AllAddresses : GeocodeStart("c1", a, "")
    \/ CheckAvailable("c1")
    \/ CallProvider("c1", FewVWorldResponses, FewKakaoResponses, FewMockOutcomes)

SpecAddr == InitAddr /\ [][NextAddr]_vars

\* SpecConc: two callers inside Geocode at the same time (as the workers of a
\* batch are), interleaved with each other and with outside Disable calls.
InitConc == InitWith({<<VWorld, Kakao>>, <<Mock("Provider1", TRUE), Mock("Provider2", TRUE)>>})

NextConc ==
    \/ \E c \in AllCallers, a \in SampleAddresses : GeocodeStart(c, a, "")
    \/ \E c \in AllCallers : CheckAvailable(c)
    \/ \E c \in AllCallers :
          CallProvider(c, FewVWorldResponses, FewKakaoResponses, FewMockOutcomes)
    \/ \E n \in 1..2 : ExternalDisable(n)

SpecConc == InitConc /\ [][NextConc]_vars

\* Longest address list of the batches of SpecBatch.
MaxBatch == 2

RECURSIVE ListsUpTo(_, _)
ListsUpTo(S, n) ==
    IF n = 0 THEN {<<>>}
    ELSE LET shorter == ListsUpTo(S, n - 1)
         IN shorter \cup {Append(l, x) : l \in {t \in shorter : Len(t) = n - 1}, x \in S}

\* SpecBatch: GeocodeBatch over every list of up to MaxBatch sample addresses,
\* for every accepted client configuration.
BatchVWorldResponses ==
    {StatusOnly(401), VWorldBody("NOT_FOUND", "", EmptyStr, EmptyStr)}

BatchKakaoResponses ==
    {StatusOnly(400), KakaoBody(0, EmptyStr, EmptyStr),
     KakaoBody(1, NumStr(GoodLng), NumStr(GoodLat))}

InitBatch == InitOf({<<VWorld, Kakao>>}, 1..MaxBatch, AcceptedConfigs)

NextBatch ==
    \/ \E l \in ListsUpTo(SampleAddresses, MaxBatch) : BatchStart(l)
    \/ Dispatch
    \/ \E i \in DOMAIN frame : WorkerAcquire(i)
    \/ \E i \in DOMAIN frame : CheckAvailable(i)
    \/ \E i \in DOMAIN frame :
          CallProvider(i, BatchVWorldResponses, BatchKakaoResponses, {})
    \/ \E i \in DOMAIN frame : WorkerFinish(i)
    \/ BatchWait

SpecBatch == InitBatch /\ [][NextBatch]_vars

\* SpecSem: one batch with one address more than the channel has slots; the
\* first address is valid and the others are not.
CrowdedBatch == [i \in 1..(maxConcurrent + 1) |-> IF i = 1 THEN <<"H", "a">> ELSE <<"a">>]

InitSem == InitOf({<<Kakao>>}, 1..(maxConcurrent + 1), {Config(10)})

NextSem ==
    \/ BatchStart(CrowdedBatch)
    \/ Dispatch
    \/ \E i \in DOMAIN frame : WorkerAcquire(i)
    \/ \E i \in DOMAIN frame : CheckAvailable(i)
    \/ \E i \in DOMAIN frame :
          CallProvider(i, {}, {KakaoBody(1, NumStr(GoodLng), NumStr(GoodLat))}, {})
    \/ \E i \in DOMAIN frame : WorkerFinish(i)
    \/ BatchWait

SpecSem == InitSem /\ [][NextSem]_vars

\* SpecBatchFair: one GeocodeBatch call followed to its return, under the
\* scheduler's guarantee that, while some goroutine of the batch can take a
\* step, one of them does (a provider call under way returns; nothing obliges
\* anyone to call GeocodeBatch). The call is followed either from its start,
\* with up to MaxBatch addresses, or from AtFullSemaphore, the point of a call
\* with CrowdedBatch at which the first ten goroutines hold the ten slots and
\* the dispatch loop is about to start the eleventh.
AtFullSemaphore ==
    /\ providers = <<Kakao>>
    /\ pstate = [n \in 1..Len(providers) |-> Enabled]
    /\ frame = [c \in 1..(maxConcurrent + 1) |->
                   IF c <= maxConcurrent THEN FrameAtEntry(CrowdedBatch[c], "") ELSE IdleFrame]
    /\ trace = [c \in 1..(maxConcurrent + 1) |-> <<>>]
    /\ snap = [c \in 1..(maxConcurrent + 1) |-> pstate]
    /\ wire = [c \in 1..(maxConcurrent + 1) |-> <<>>]
    /\ config = Config(10)
    /\ batch = [IdleBatch EXCEPT
                   !.pc = "dispatch",
                   !.addresses = CrowdedBatch,
                   !.results = [i \in 1..(maxConcurrent + 1) |-> NoResponse],
                   !.next = maxConcurrent + 1,
                   !.sem = maxConcurrent,
                   !.wg = maxConcurrent,
                   !.w = [i \in 1..(maxConcurrent + 1) |->
                            IF i <= maxConcurrent THEN "holding" ELSE "unborn"]]
    /\ client = ClientOf(config)

InitFair ==
    \/ InitOf({<<VWorld, Kakao>>}, 1..MaxBatch, {Config(10)})
    \/ AtFullSemaphore

RunFair ==
    \/ Dispatch
    \/ \E i \in DOMAIN frame : WorkerAcquire(i)
    \/ \E i \in DOMAIN frame : CheckAvailable(i)
    \/ \E i \in DOMAIN frame :
          CallProvider(i, BatchVWorldResponses, BatchKakaoResponses, {})
    \/ \E i \in DOMAIN frame : WorkerFinish(i)
    \/ BatchWait

NextFair ==
    \/ /\ batch.pc = "idle"
       /\ \E l \in ListsUpTo(SampleAddresses, MaxBatch) : BatchStart(l)
    \/ RunFair

SpecBatchFair == InitFair /\ [][NextFair]_vars /\ WF_vars(RunFair)

\* SpecNew: New called with every combination of set, zero and out-of-range
\* fields.
RawConfigs ==
    {[VWorldAPIKey |-> v, KakaoAPIKey |-> k, Timeout |-> t, MaxRetries |-> r,
      LogLevel |-> l, ConcurrentLimit |-> n] :
        v \in {"", "vworld-key"}, k \in {"", "kakao-key"}, t \in {-1, 0, 5},
        r \in {-1, 0, 2}, l \in {"", "info", "verbose"}, n \in {0, 1, 10, 100, 101}}

InitNew ==
    /\ providers = <<>>
    /\ pstate = <<>>
    /\ frame = [c \in {"c1"} |-> IdleFrame]
    /\ trace = [c \in {"c1"} |-> <<>>]
    /\ snap = [c \in {"c1"} |-> <<>>]
    /\ wire = [c \in {"c1"} |-> <<>>]
    /\ config = ZeroConfig
    /\ batch = IdleBatch
    /\ client = NoClient

NextNew == \E cfg \in RawConfigs : New(cfg)

SpecNew == InitNew /\ [][NextNew]_vars

\* SpecClient: Client.GeocodeBatch over every list of up to MaxBatch sample
\* addresses, and over a list one longer than the maximum.
OverlongList == [i \in 1..(MaxAddresses + 1) |-> <<"H", "a">>]

InitClient == InitOf({<<VWorld, Kakao>>}, 1..MaxBatch, {Config(10)})

NextClient ==
    \/ \E l \in ListsUpTo(SampleAddresses, MaxBatch) \cup {OverlongList} :
          ClientGeocodeBatch(l)
    \/ Dispatch
    \/ \E i \in DOMAIN frame : WorkerAcquire(i)
    \/ \E i \in DOMAIN frame : CheckAvailable(i)
    \/ \E i \in DOMAIN frame :
          CallProvider(i, BatchVWorldResponses, BatchKakaoResponses, {})
    \/ \E i \in DOMAIN frame : WorkerFinish(i)
    \/ BatchWait
    \/ ClientBatchReturn

SpecClient == InitClient /\ [][NextClient]_vars

\* SpecCancel: one caller whose ctx can be cancelled at any point of a call,
\* against the providers New builds.
InitCancel == InitWith(ProductionConfigs)

NextCancel ==
    \/ \E a \in SampleAddresses, t \in {"", "ROAD"} : GeocodeStart("c1", a, t)
    \/ Cancel("c1")
    \/ CheckAvailable("c1")
    \/ CallProvider("c1", FewVWorldResponses, FewKakaoResponses, {})

SpecCancel == InitCancel /\ [][NextCancel]_vars

\* SpecRound: Kakao answering with coordinates whose seventh decimal runs
\* through every digit, on both sides of zero.
MaxSeventh == 15

RoundInputs == {sign * (Deg(37, 1234560) + d) : sign \in {1, -1}, d \in 0..MaxSeventh}

RoundKakaoResponses == {KakaoBody(1, NumStr(x), NumStr(y)) : x, y \in RoundInputs}

InitRound == InitWith({<<Kakao>>})

NextRound ==
    \/ GeocodeStart("c1", <<"H", "a">>, "")
    \/ CheckAvailable("c1")
    \/ CallProvider("c1", {}, RoundKakaoResponses, {})

SpecRound == InitRound /\ [][NextRound]_vars

\* SpecHint: a service that takes direct Geocode calls with every type hint
\* and then batches, over the same frames.
InitHint == InitOf({<<VWorld, Kakao>>}, 1..MaxBatch, {Config(10)})

NextHint ==
    \/ /\ batch.pc = "idle"
       /\ \E a \in SampleAddresses, t \in AddressTypes : GeocodeStart(1, a, t)
    \/ /\ \A c \in DOMAIN frame : frame[c].pc \in {"idle", "done"}
       /\ \E l \in ListsUpTo(SampleAddresses, MaxBatch) : BatchStart(l)
    \/ Dispatch
    \/ \E i \in DOMAIN frame : WorkerAcquire(i)
    \/ \E i \in DOMAIN frame : CheckAvailable(i)
    \/ \E i \in DOMAIN frame :
          CallProvider(i, BatchVWorldResponses, BatchKakaoResponses, {})
    \/ \E i \in DOMAIN frame : WorkerFinish(i)
    \/ BatchWait

SpecHint == InitHint /\ [][NextHint]_vars

(***************************************************************************)
(* Vocabulary of the properties                                            *)
(***************************************************************************)
Indexes(c) == 1..Len(trace[c])

\* Iteration e invoked the provider and got a classified error of type t.
GotClassified(e, t) == e.invoked /\ e.ret.err.kind = "classified" /\ e.ret.err.Type = t

\* Iteration e invoked the provider and got an unclassified error.
GotOpaque(e) == e.invoked /\ e.ret.err.kind = "opaque"

\* Iteration e invoked the provider and got no error and no match.
GotNoMatch(e) ==
    e.invoked /\ e.ret.err.kind = "nil" /\ (e.ret.result.nil \/ ~e.ret.result.Success)

\* Iteration e invoked the provider and got a match.
GotMatch(e) ==
    e.invoked /\ e.ret.err.kind = "nil" /\ ~e.ret.result.nil /\ e.ret.result.Success

InRange(lat, lng) ==
    /\ -900000000 <= lat /\ lat <= 900000000
    /\ -1800000000 <= lng /\ lng <= 1800000000

Nearest(v) == CHOOSE r \in {v - (v % 10), v - (v % 10) + 10} :
                  \A q \in {v - (v % 10), v - (v % 10) + 10} :
                      (IF r > v THEN 2 * (r - v) - 1 ELSE 2 * (v - r)) <=
                      (IF q > v THEN 2 * (q - v) - 1 ELSE 2 * (v - q))

\* The multiple of 10 nearest to v, the farther from zero of two equally near.
NearestSixDecimal(v) == IF v < 0 THEN -Nearest(-v) ELSE Nearest(v)

\* A match whose coordinate, once rounded, is a WGS84 coordinate.
GotUsableMatch(e) ==
    /\ GotMatch(e)
    /\ InRange(NearestSixDecimal(e.ret.result.Latitude),
               NearestSixDecimal(e.ret.result.Longitude))

FailedAttempt(n, text) == [Provider |-> providers[n].name, Success |-> FALSE, Error |-> text]
SucceededAttempt(n) == [Provider |-> providers[n].name, Success |-> TRUE, Error |-> ""]

(***************************************************************************)
(* C1: with two providers, when the first is invoked and fails with a      *)
(* classified NotFound error or returns a result without a match, and the  *)
(* second is invoked and returns a match with a usable coordinate, the     *)
(* call returns success=true, names the second provider, and its attempts  *)
(* are [first failed, second succeeded], in call order.                    *)
(***************************************************************************)
C1_FirstSuccessWins ==
    \A c \in AllCallers :
        LET f == frame[c]
            t == trace[c]
        IN /\ (/\ Len(providers) = 2
               /\ Len(t) >= 1
               /\ GotClassified(t[1], "NOT_FOUND") \/ GotNoMatch(t[1]))
              => Len(t) = 2 \/ (f.pc \in {"check", "call"} /\ f.i = 2)
           /\ (/\ f.pc = "done"
               /\ Len(providers) = 2
               /\ Len(t) = 2
               /\ GotClassified(t[1], "NOT_FOUND") \/ GotNoMatch(t[1])
               /\ GotUsableMatch(t[2]))
              => /\ f.resp.Success
                 /\ f.resp.Provider = providers[2].name
                 /\ f.resp.hasCoordinate
                 /\ f.resp.Latitude = NearestSixDecimal(t[2].ret.result.Latitude)
                 /\ f.resp.Longitude = NearestSixDecimal(t[2].ret.result.Longitude)
                 /\ f.resp.Error = ""
                 /\ f.resp.Attempts =
                       << FailedAttempt(1, IF GotNoMatch(t[1]) THEN "address not found"
                                           ELSE t[1].ret.err.text),
                          SucceededAttempt(2) >>

C1_Witness ==
    /\ frame["c1"].pc = "done"
    /\ Len(trace["c1"]) = 2
    /\ GotClassified(trace["c1"][1], "NOT_FOUND")
    /\ GotUsableMatch(trace["c1"][2])
    /\ frame["c1"].resp.Success
    /\ Len(frame["c1"].resp.Attempts) = 2

(***************************************************************************)
(* C2: once a provider has returned a classified Invalid error the call    *)
(* has returned: success=false, the error text, the provider's name, and   *)
(* the attempts so far ending with that provider's failed attempt; no      *)
(* later provider was checked or invoked.                                  *)
(***************************************************************************)
C2_InvalidStops ==
    \A c \in AllCallers : \A k \in Indexes(c) :
        LET f == frame[c]
            e == trace[c][k]
        IN GotClassified(e, "INVALID_INPUT")
           => /\ f.pc = "done"
              /\ Len(trace[c]) = k
              /\ ~f.resp.Success
              /\ f.resp.Error = e.ret.err.text
              /\ f.resp.Provider = providers[k].name
              /\ f.resp.Attempts = f.attempts
              /\ Len(f.attempts) = k
              /\ f.attempts[k] = FailedAttempt(k, e.ret.err.text)

\* The Invalid provider is first and an available provider follows it.
C2_Witness ==
    /\ frame["c1"].pc = "done"
    /\ Len(providers) = 2
    /\ IsAvailable(2)
    /\ Len(trace["c1"]) = 1
    /\ GotClassified(trace["c1"][1], "INVALID_INPUT")
    /\ Len(frame["c1"].resp.Attempts) = 1

HasPrefix(s, prefix) == Len(s) >= Len(prefix) /\ SubSeq(s, 1, Len(prefix)) = prefix

(***************************************************************************)
(* C4: a provider that has returned Unauthorized is disabled, and a        *)
(* provider that was disabled for an authentication failure when a call    *)
(* started is not invoked in that call: its iteration records the attempt  *)
(* {provider, success=false, "provider not available"}.                    *)
(***************************************************************************)
C4_UnauthorizedProviderSkipped ==
    \A c \in AllCallers : \A k \in Indexes(c) :
        /\ GotClassified(trace[c][k], "UNAUTHORIZED") => IsDisabled(k)
        /\ (/\ snap[c][k].disabled
            /\ HasPrefix(snap[c][k].disableReason, "Authentication failed: "))
           => /\ trace[c][k] = Skipped
              /\ frame[c].attempts[k] = FailedAttempt(k, "provider not available")

\* The same, for the providers whose IsAvailable reads the flag.
C4_HoldsForVWorldAndMock ==
    \A c \in AllCallers : \A k \in Indexes(c) :
        providers[k].impl # "Kakao" =>
            /\ GotClassified(trace[c][k], "UNAUTHORIZED") => IsDisabled(k)
            /\ (/\ snap[c][k].disabled
                /\ HasPrefix(snap[c][k].disableReason, "Authentication failed: "))
               => /\ trace[c][k] = Skipped
                  /\ frame[c].attempts[k] = FailedAttempt(k, "provider not available")

(***************************************************************************)
(* C5: for the vWorld and the Kakao adapter alike, IsAvailable is the      *)
(* negation of the disabled flag.                                          *)
(***************************************************************************)
C5_AvailableIffNotDisabled ==
    \A n \in 1..Len(providers) :
        providers[n].impl \in {"vWorld", "Kakao"} => (IsAvailable(n) <=> ~IsDisabled(n))

(***************************************************************************)
(* C6: a disabled flag that is true stays true across every step, whoever  *)
(* takes it.                                                               *)
(***************************************************************************)
C6_DisabledIsPermanent ==
    [][\A n \in 1..Len(providers) : pstate[n].disabled => pstate'[n].disabled]_vars

\* Both callers ran a whole call over a provider that was already disabled,
\* and each of them had that provider disabled under it once more.
C6_Witness ==
    \E n \in 1..Len(providers) :
        /\ IsDisabled(n)
        /\ \A c \in AllCallers :
              /\ frame[c].pc = "done"
              /\ Len(trace[c]) = Len(providers)
              /\ snap[c][n].disabled
        /\ \E m \in 1..Len(providers) :
              /\ ~snap["c1"][m].disabled /\ ~snap["c2"][m].disabled
              /\ GotClassified(trace["c1"][m], "UNAUTHORIZED")
              /\ GotClassified(trace["c2"][m], "UNAUTHORIZED")

(***************************************************************************)
(* C7: a step that finds the provider it has reached not available does    *)
(* not invoke it, appends exactly the attempt {provider, success=false,    *)
(* "provider not available"}, changes no provider and moves to the next    *)
(* provider (or, after the last one, returns the all-failed outcome).      *)
(***************************************************************************)
C7_UnavailableSkipped ==
    [][\A c \in AllCallers :
          (frame[c].pc = "check" /\ frame'[c] # frame[c] /\ ~IsAvailable(frame[c].i))
          => LET f == frame[c]
                 g == frame'[c]
             IN /\ trace'[c] = Append(trace[c], [invoked |-> FALSE, ret |-> Ret(NilResult, NilError)])
                /\ g.attempts = Append(f.attempts, FailedAttempt(f.i, "provider not available"))
                /\ pstate' = pstate
                /\ IF f.i < Len(providers)
                   THEN g.pc = "check" /\ g.i = f.i + 1
                   ELSE g.pc = "done" /\ ~g.resp.Success /\ g.resp.Attempts = g.attempts
       ]_vars

C7_Witness ==
    /\ Len(trace["c1"]) = 2
    /\ ~trace["c1"][1].invoked
    /\ trace["c1"][2].invoked
    /\ frame["c1"].attempts[1].Error = "provider not available"

(***************************************************************************)
(* C8: a Geocode call whose address is invalid after normalization (empty, *)
(* shorter than two characters, or without a Hangul character) returns at  *)
(* once success=false, "invalid address format" and no attempts; it checks *)
(* and invokes no provider and changes no provider state.                  *)
(***************************************************************************)
InvalidAfterNormalization(address) ==
    LET n == NormalizeAddress(address)
    IN \/ n = <<>>
       \/ Len(n) < 2
       \/ \A i \in 1..Len(n) : n[i] # "H"

C8_InvalidAddressRejected ==
    [][\A c \in AllCallers :
          (/\ frame[c].pc \in {"idle", "done"}
           /\ frame'[c] # frame[c]
           /\ InvalidAfterNormalization(frame'[c].address))
          => /\ frame'[c].pc = "done"
             /\ frame'[c].resp =
                   [Success |-> FALSE, hasCoordinate |-> FALSE, Latitude |-> 0, Longitude |-> 0,
                    Provider |-> "", Attempts |-> <<>>, Error |-> "invalid address format"]
             /\ frame'[c].attempts = <<>>
             /\ trace'[c] = <<>>
             /\ pstate' = pstate
       ]_vars

\* An address that only normalization makes too short was rejected.
C8_Witness ==
    /\ frame["c1"].pc = "done"
    /\ frame["c1"].address = <<"H", "F">>
    /\ frame["c1"].resp.Error = "invalid address format"
    /\ trace["c1"] = <<>>

(***************************************************************************)
(* C9: a call that has passed every configured provider without a match    *)
(* (each one not available, without a match, or failed with a classified   *)
(* error other than Invalid or with an unclassified error) returns         *)
(* success=false, provider "none", "all providers failed to geocode the    *)
(* address", and one failed attempt per configured provider, in order.     *)
(***************************************************************************)
Passed(e) ==
    \/ ~e.invoked
    \/ GotNoMatch(e)
    \/ GotOpaque(e)
    \/ \E t \in ErrorTypes \ {"INVALID_INPUT"} : GotClassified(e, t)

C9_AllProvidersFailed ==
    \A c \in AllCallers :
        LET f == frame[c]
        IN (/\ f.pc # "idle"
            /\ ~InvalidAfterNormalization(f.address)
            /\ Len(trace[c]) = Len(providers)
            /\ \A k \in Indexes(c) : Passed(trace[c][k]))
           => /\ f.pc = "done"
              /\ ~f.resp.Success
              /\ ~f.resp.hasCoordinate
              /\ f.resp.Provider = "none"
              /\ f.resp.Error = "all providers failed to geocode the address"
              /\ Len(f.resp.Attempts) = Len(providers)
              /\ \A k \in 1..Len(providers) :
                    /\ f.resp.Attempts[k].Provider = providers[k].name
                    /\ ~f.resp.Attempts[k].Success
                    /\ f.resp.Attempts[k].Error # ""

C9_Witness ==
    /\ frame["c1"].pc = "done"
    /\ Len(providers) = 2
    /\ Len(trace["c1"]) = 2
    /\ ~trace["c1"][1].invoked
    /\ GotClassified(trace["c1"][2], "TIMEOUT")
    /\ frame["c1"].resp.Provider = "none"

(***************************************************************************)
(* C10: a step in which a provider returns an unclassified error appends   *)
(* the failed attempt with the error text, changes no provider state and   *)
(* moves to the next provider (or, after the last one, returns the         *)
(* all-failed outcome).                                                    *)
(***************************************************************************)
C10_OpaqueErrorContinues ==
    [][\A c \in AllCallers :
          (/\ Len(trace'[c]) = Len(trace[c]) + 1
           /\ GotOpaque(trace'[c][Len(trace'[c])]))
          => LET f == frame[c]
                 g == frame'[c]
                 e == trace'[c][Len(trace'[c])]
             IN /\ f.pc = "call"
                /\ g.attempts = Append(f.attempts, FailedAttempt(f.i, e.ret.err.text))
                /\ pstate' = pstate
                /\ IF f.i < Len(providers)
                   THEN g.pc = "check" /\ g.i = f.i + 1
                   ELSE /\ g.pc = "done"
                        /\ g.resp.Provider = "none"
                        /\ g.resp.Attempts = g.attempts
       ]_vars

C10_Witness ==
    /\ frame["c1"].pc = "done"
    /\ Len(trace["c1"]) = 2
    /\ GotOpaque(trace["c1"][1])
    /\ ~IsDisabled(1)
    /\ GotUsableMatch(trace["c1"][2])
    /\ frame["c1"].resp.Success

(***************************************************************************)
(* C11: once a provider has returned success=true with a coordinate that   *)
(* is outside the WGS84 range after rounding, the call has returned        *)
(* success=false with error "invalid coordinates" and no coordinate, and   *)
(* no later provider was checked or invoked.                               *)
(***************************************************************************)
GotUnusableMatch(e) ==
    /\ GotMatch(e)
    /\ ~InRange(NearestSixDecimal(e.ret.result.Latitude),
                NearestSixDecimal(e.ret.result.Longitude))

C11_InvalidCoordinatesStop ==
    \A c \in DOMAIN frame : \A k \in Indexes(c) :
        LET f == frame[c]
        IN GotUnusableMatch(trace[c][k])
           => /\ f.pc = "done"
              /\ Len(trace[c]) = k
              /\ f.i = k
              /\ ~f.resp.Success
              /\ ~f.resp.hasCoordinate
              /\ f.resp.Error = "invalid coordinates"

\* The provider with the unusable match is first and an available one follows.
C11_Witness ==
    /\ frame["c1"].pc = "done"
    /\ Len(providers) = 2
    /\ IsAvailable(2)
    /\ Len(trace["c1"]) = 1
    /\ GotUnusableMatch(trace["c1"][1])
    /\ frame["c1"].resp.Error = "invalid coordinates"

(***************************************************************************)
(* Vocabulary of the batch properties                                      *)
(***************************************************************************)
Holding == {i \in Workers : batch.w[i] = "holding"}
Finished == {i \in Workers : batch.w[i] = "finished"}
Orchestrating == {i \in DOMAIN frame : frame[i].pc \in {"check", "call"}}

(***************************************************************************)
(* C12: a Geocode call that has returned has a nil error, and so has a     *)
(* GeocodeBatch call; every failure of an invoked provider is the failed   *)
(* attempt of its iteration, after which the call went on or returned;     *)
(* every returned outcome with success=false, of Geocode and in the result *)
(* list of a batch, has a non-empty error string.                          *)
(***************************************************************************)
C12_FailuresAreOutcomes ==
    /\ \A c \in DOMAIN frame :
          LET f == frame[c]
          IN /\ f.pc = "done" =>
                   /\ f.err = [kind |-> "nil", Type |-> "", text |-> "",
                               Retriable |-> FALSE, Fallback |-> FALSE]
                   /\ ~f.resp.Success => f.resp.Error # ""
             /\ \A k \in Indexes(c) :
                   (trace[c][k].invoked /\ ~GotMatch(trace[c][k]))
                   => /\ Len(f.attempts) >= k
                      /\ f.attempts[k].Provider = providers[k].name
                      /\ ~f.attempts[k].Success
                      /\ \/ f.pc = "done"
                         \/ f.pc \in {"check", "call"} /\ f.i > k
    /\ batch.pc = "returned" =>
          /\ batch.err.kind = "nil"
          /\ Len(batch.resp.Results) = Len(batch.addresses)
          /\ \A i \in 1..Len(batch.resp.Results) :
                ~batch.resp.Results[i].Success => batch.resp.Results[i].Error # ""

\* A returned batch with a provider-level stop, an exhausted list and nothing else.
C12_Witness ==
    /\ batch.pc = "returned"
    /\ Len(batch.addresses) = 2
    /\ Len(trace[1]) = 2 /\ GotClassified(trace[1][2], "INVALID_INPUT")
    /\ Len(trace[2]) = 2 /\ GotNoMatch(trace[2][2])
    /\ ~batch.resp.Results[1].Success /\ ~batch.resp.Results[2].Success

(***************************************************************************)
(* C13: at every moment of a batch the slot of each finished worker holds  *)
(* the outcome of orchestrating the address at that same index and every   *)
(* other slot is still empty, whatever the order in which the workers      *)
(* finish; the returned list has the length of the input.                  *)
(***************************************************************************)
C13_ResultsByIndex ==
    /\ batch.pc \in {"dispatch", "wait", "returned"} =>
          /\ Len(batch.results) = Len(batch.addresses)
          /\ \A i \in Workers :
                IF batch.w[i] = "finished"
                THEN /\ frame[i].pc = "done"
                     /\ frame[i].address = batch.addresses[i]
                     /\ batch.results[i] = frame[i].resp
                     /\ InvalidAfterNormalization(batch.addresses[i])
                           <=> batch.results[i].Error = "invalid address format"
                     /\ Len(batch.results[i].Attempts) = Len(trace[i])
                ELSE batch.results[i] = NoResponse
    /\ batch.pc = "returned" =>
          /\ batch.resp.Results = batch.results
          /\ Len(batch.resp.Results) = Len(batch.addresses)
          /\ Finished = Workers

\* The worker of the second address has finished before the worker of the first.
C13_Witness ==
    /\ batch.pc = "wait"
    /\ batch.addresses = << <<"H", "a">>, <<"a">> >>
    /\ batch.w[1] = "holding" /\ frame[1].pc = "call"
    /\ batch.w[2] = "finished"
    /\ batch.results[2].Error = "invalid address format"

(***************************************************************************)
(* C14: a worker that finishes with a failed outcome stores it in its own  *)
(* slot and changes no other slot, no other worker and not the caller's    *)
(* position; a batch that returns returns a nil error after every worker   *)
(* has finished, with a failed outcome exactly at the indexes whose        *)
(* orchestration failed.                                                   *)
(***************************************************************************)
C14_FailureStaysAtItsIndex ==
    [][/\ \A i \in Workers :
             (/\ batch.w[i] = "holding"
              /\ batch'.w[i] = "finished"
              /\ ~frame[i].resp.Success)
             => /\ batch'.pc = batch.pc
                /\ batch'.err = batch.err
                /\ ~batch'.results[i].Success
                /\ batch'.results[i].Error = frame[i].resp.Error
                /\ \A j \in Workers \ {i} :
                      /\ batch'.results[j] = batch.results[j]
                      /\ batch'.w[j] = batch.w[j]
                      /\ frame'[j] = frame[j]
       /\ (batch.pc # "returned" /\ batch'.pc = "returned")
             => /\ batch'.err.kind = "nil"
                /\ \A i \in 1..Len(batch'.addresses) :
                      /\ batch'.w[i] = "finished"
                      /\ frame'[i].pc = "done"
                      /\ batch'.resp.Results[i].Success <=> frame'[i].resp.Success
      ]_vars

\* One address was stopped by an Invalid failure and the other one succeeded.
C14_Witness ==
    /\ batch.pc = "returned"
    /\ Len(batch.addresses) = 2
    /\ \E k \in Indexes(1) : GotClassified(trace[1][k], "INVALID_INPUT")
    /\ ~batch.resp.Results[1].Success
    /\ batch.resp.Results[2].Success
    /\ batch.err.kind = "nil"

(***************************************************************************)
(* C15: when the batch has returned every worker has finished, and the     *)
(* summary has total = number of input addresses, success = number of      *)
(* results with success=true, failed = total - success.                    *)
(***************************************************************************)
C15_SummaryAfterBarrier ==
    (batch.pc = "returned" /\ batch.addresses # <<>>) =>
        /\ \A i \in Workers : batch.w[i] = "finished" /\ batch.results[i] # NoResponse
        /\ batch.wg = 0
        /\ batch.resp.Summary.Total = Len(batch.addresses)
        /\ batch.resp.Summary.Success =
              Cardinality({i \in Workers : frame[i].resp.Success})
        /\ batch.resp.Summary.Failed =
              Len(batch.addresses) - Cardinality({i \in Workers : frame[i].resp.Success})

C15_Witness ==
    /\ batch.pc = "returned"
    /\ batch.resp.Summary = [Total |-> 2, Success |-> 1, Failed |-> 1]

(***************************************************************************)
(* C16: a GeocodeBatch call on an empty list has returned an empty result  *)
(* list, the summary {0, 0, 0} and a nil error; no worker exists, no       *)
(* Geocode call was made and no provider was contacted.                    *)
(***************************************************************************)
C16_EmptyBatch ==
    (batch.pc # "idle" /\ batch.addresses = <<>>) =>
        /\ batch.pc = "returned"
        /\ batch.resp.Results = <<>>
        /\ batch.resp.Summary = [Total |-> 0, Success |-> 0, Failed |-> 0]
        /\ batch.err.kind = "nil"
        /\ batch.w = <<>> /\ batch.wg = 0 /\ batch.sem = 0
        /\ \A c \in DOMAIN frame :
              frame[c].pc = "idle" /\ trace[c] = <<>> /\ wire[c] = <<>>

\* An empty batch was run after a batch that disabled a provider.
C16_Witness ==
    /\ batch.pc = "returned"
    /\ batch.addresses = <<>>
    /\ IsDisabled(1)

(***************************************************************************)
(* C17: the number of workers holding a semaphore slot never exceeds the   *)
(* ConcurrentLimit the client was configured with.                         *)
(***************************************************************************)
C17_WithinConfiguredLimit ==
    /\ Cardinality(Holding) <= config.ConcurrentLimit
    /\ Cardinality(Orchestrating) <= config.ConcurrentLimit

(***************************************************************************)
(* C18: at most 10 workers hold a semaphore slot, only these are inside    *)
(* Geocode, and every other worker has finished or is still waiting.       *)
(***************************************************************************)
C18_AtMostTenSlots ==
    /\ Cardinality(Holding) <= 10
    /\ batch.sem = Cardinality(Holding)
    /\ Orchestrating \subseteq Holding
    /\ Cardinality(Orchestrating) <= 10
    /\ \A i \in Workers : batch.w[i] \in {"unborn", "spawned", "holding", "finished"}
    /\ \A i \in Workers : batch.w[i] \in {"unborn", "spawned"} => frame[i].pc = "idle"

\* Ten workers hold a slot, one of them calling a provider, and one waits.
C18_Witness ==
    /\ Cardinality(Holding) = 10
    /\ \E i \in Workers : batch.w[i] = "spawned"
    /\ \E i \in Holding : frame[i].pc = "call"

(***************************************************************************)
(* C19: every classified error a provider has returned has retriable and   *)
(* fallback set from its kind alone: (true, true) for NotFound,            *)
(* SystemFailure, Timeout and RateLimitExceeded, (false, false) for        *)
(* Invalid and Unauthorized, whatever its message and cause.               *)
(***************************************************************************)
FlagsOfKind(t) ==
    CASE t \in {"NOT_FOUND", "SYSTEM_FAILURE", "TIMEOUT", "RATE_LIMIT_EXCEEDED"} -> TRUE
      [] t \in {"INVALID_INPUT", "UNAUTHORIZED"} -> FALSE

C19_FlagsFromKindOnly ==
    /\ \A c \in DOMAIN frame : \A k \in Indexes(c) :
          LET err == trace[c][k].ret.err
          IN err.kind = "classified"
             => /\ err.Type \in ErrorTypes
                /\ err.Retriable = FlagsOfKind(err.Type)
                /\ err.Fallback = FlagsOfKind(err.Type)
    /\ \A t \in ErrorTypes :
          \A m1, m2 \in {"", "Invalid API key"} : \A o1, o2 \in {NoErrorText, ErrQuotaExceeded} :
             /\ NewClassifiedError(t, m1, o1).Retriable = NewClassifiedError(t, m2, o2).Retriable
             /\ NewClassifiedError(t, m1, o1).Fallback = NewClassifiedError(t, m2, o2).Fallback

\* Two failures of one kind with different messages and causes, flagged alike.
C19_Witness ==
    /\ Len(trace["c1"]) = 2
    /\ GotClassified(trace["c1"][1], "SYSTEM_FAILURE")
    /\ GotClassified(trace["c1"][2], "SYSTEM_FAILURE")
    /\ trace["c1"][1].ret.err.text # trace["c1"][2].ret.err.text
    /\ trace["c1"][1].ret.err.Fallback /\ trace["c1"][2].ret.err.Fallback
    /\ trace["c1"][1].ret.err.Retriable /\ trace["c1"][2].ret.err.Retriable

(***************************************************************************)
(* C20: a provider call that received a single HTTP answer with a non-2xx  *)
(* status returned a classified error whose kind is Unauthorized for 401   *)
(* and 403, Invalid for 400, RateLimitExceeded for 429 and SystemFailure   *)
(* for every other status.                                                 *)
(***************************************************************************)
KindOfStatus(code) ==
    CASE code \in {401, 403} -> "UNAUTHORIZED"
      [] code = 400 -> "INVALID_INPUT"
      [] code = 429 -> "RATE_LIMIT_EXCEEDED"
      [] OTHER -> "SYSTEM_FAILURE"

\* Iteration k of caller c received exactly one answer, with a non-2xx status.
GotStatus(c, k) ==
    /\ Len(wire[c][k]) = 1
    /\ wire[c][k][1].net = ""
    /\ wire[c][k][1].code \notin 200..299

C20_StatusMapping ==
    \A c \in DOMAIN frame : \A k \in Indexes(c) :
        GotStatus(c, k)
        => GotClassified(trace[c][k], KindOfStatus(wire[c][k][1].code))

\* The part of the mapping both adapters implement: 401, 429 and 500.
C20_HoldsForSharedStatuses ==
    \A c \in DOMAIN frame : \A k \in Indexes(c) :
        (GotStatus(c, k) /\ wire[c][k][1].code \in {401, 429, 500})
        => GotClassified(trace[c][k], KindOfStatus(wire[c][k][1].code))

(***************************************************************************)
(* Vocabulary of the properties about HTTP answers                         *)
(***************************************************************************)
\* The answer is an HTTP 200 whose body decodes and holds no match.
ZeroMatches(a) ==
    /\ a.net = "" /\ a.code = 200 /\ a.json
    /\ IF a.req = "address"
       THEN a.ndocs = 0
       ELSE \/ a.status = "NOT_FOUND"
            \/ a.status = "OK" /\ (a.x.tag = "empty" \/ a.y.tag = "empty")

\* The answer is an HTTP 200 whose body holds a point with two numbers.
HoldsPoint(a) ==
    /\ a.net = "" /\ a.code = 200 /\ a.json
    /\ a.req = "address" => a.ndocs > 0
    /\ a.req # "address" => a.status = "OK"
    /\ a.x.tag = "num" /\ a.y.tag = "num"

\* Iteration e returned a match with the point of answer a.
MatchOf(e, a) ==
    /\ GotMatch(e)
    /\ e.ret.result.Latitude = a.y.v
    /\ e.ret.result.Longitude = a.x.v

\* The call of caller c that reached iteration k went on to the next
\* provider, or returned the all-failed outcome after the last one.
WentOn(c, k) ==
    IF k < Len(providers)
    THEN Len(trace[c]) > k \/ (frame[c].pc \in {"check", "call"} /\ frame[c].i = k + 1)
    ELSE frame[c].pc = "done" /\ frame[c].resp.Provider = "none"

(***************************************************************************)
(* C21: a provider call all of whose HTTP answers were 200 with zero       *)
(* matches returned a result with success=false and a nil error; the       *)
(* orchestrator recorded the failed attempt "address not found", left the  *)
(* provider's state as it was and went on to the next provider.            *)
(***************************************************************************)
C21_ZeroMatchesFallsBack ==
    \A c \in DOMAIN frame : \A k \in Indexes(c) :
        LET e == trace[c][k]
            w == wire[c][k]
        IN (Len(w) >= 1 /\ \A j \in 1..Len(w) : ZeroMatches(w[j]))
           => /\ e.invoked
              /\ e.ret.err.kind = "nil"
              /\ ~e.ret.result.nil
              /\ ~e.ret.result.Success
              /\ frame[c].attempts[k] = FailedAttempt(k, "address not found")
              /\ pstate[k] = snap[c][k]
              /\ WentOn(c, k)

\* vWorld found nothing under either type, and Kakao then found the address.
C21_Witness ==
    /\ frame["c1"].pc = "done"
    /\ Len(trace["c1"]) = 2
    /\ Len(wire["c1"][1]) = 2
    /\ ZeroMatches(wire["c1"][1][1]) /\ ZeroMatches(wire["c1"][1][2])
    /\ ~IsDisabled(1)
    /\ GotUsableMatch(trace["c1"][2])
    /\ frame["c1"].resp.Success

(***************************************************************************)
(* C22: a vWorld call with an empty address type requests ROAD first; when *)
(* the ROAD answer holds a point, that point is returned and no second     *)
(* request is made; otherwise PARCEL is requested second, and the call     *)
(* returns a match exactly when the PARCEL answer holds a point, with that *)
(* point.                                                                  *)
(***************************************************************************)
C22_RoadThenParcel ==
    \A c \in DOMAIN frame : \A k \in Indexes(c) :
        LET e == trace[c][k]
            w == wire[c][k]
        IN (providers[k].impl = "vWorld" /\ e.invoked /\ frame[c].addressType = "")
           => /\ Len(w) >= 1
              /\ w[1].req = "ROAD"
              /\ IF HoldsPoint(w[1])
                 THEN Len(w) = 1 /\ MatchOf(e, w[1])
                 ELSE /\ Len(w) = 2
                      /\ w[2].req = "PARCEL"
                      /\ IF HoldsPoint(w[2]) THEN MatchOf(e, w[2]) ELSE ~GotMatch(e)

\* ROAD had no match and PARCEL's point was returned.
C22_Witness ==
    /\ frame["c1"].addressType = ""
    /\ Len(providers) >= 1
    /\ providers[1].impl = "vWorld"
    /\ Len(trace["c1"]) >= 1
    /\ Len(wire["c1"][1]) = 2
    /\ ZeroMatches(wire["c1"][1][1])
    /\ MatchOf(trace["c1"][1], wire["c1"][1][2])

QuickStart(cfg) ==
    /\ cfg.VWorldAPIKey # "" \/ cfg.KakaoAPIKey # ""
    /\ cfg.Timeout = 0 /\ cfg.MaxRetries = 0 /\ cfg.LogLevel = "" /\ cfg.ConcurrentLimit = 0

(***************************************************************************)
(* C25: New succeeds for a configuration that sets at least one API key    *)
(* and leaves every other field at its zero value, and the client it       *)
(* returns holds the defaults 5s, 2, "info" and 10 in place of the zero    *)
(* values.                                                                 *)
(***************************************************************************)
C25_QuickStartAccepted ==
    (client.state # "none" /\ QuickStart(client.arg))
        => /\ client.state = "ok"
           /\ config.Timeout = 5
           /\ config.MaxRetries = 2
           /\ config.LogLevel = "info"
           /\ config.ConcurrentLimit = 10

\* What does hold: with the limit set and the other three fields zero, New
\* succeeds and fills in the three defaults.
C25_ZeroFieldsButLimit ==
    (/\ client.state # "none"
     /\ client.arg.VWorldAPIKey # "" \/ client.arg.KakaoAPIKey # ""
     /\ client.arg.Timeout = 0 /\ client.arg.MaxRetries = 0 /\ client.arg.LogLevel = ""
     /\ client.arg.ConcurrentLimit \in 1..100)
        => /\ client.state = "ok"
           /\ config.Timeout = 5
           /\ config.MaxRetries = 2
           /\ config.LogLevel = "info"
           /\ config.ConcurrentLimit = client.arg.ConcurrentLimit
           /\ providers = ProvidersOf(client.arg)

\* New was called with the quick-start configuration and returned an error.
C25_QuickStartRejected ==
    /\ QuickStart(client.arg)
    /\ client.state = "failed"
    /\ client.err = "invalid config: concurrentLimit must be at least 1"

(***************************************************************************)
(* C26: Client.GeocodeBatch rejects more than 100 addresses with an error  *)
(* and geocodes nothing (a list of exactly 100 is not rejected); for a     *)
(* list within the limit it returns a list of the same length whose entry  *)
(* i is nil exactly when the Geocode call of address i failed, and         *)
(* otherwise holds the coordinates and the provider of that call's         *)
(* outcome.                                                                *)
(***************************************************************************)
C26_BatchContract ==
    [][(/\ client'.call # client.call
        /\ client'.call.pc = "returned"
        /\ Len(client'.call.addresses) >= 1)
       => LET call == client'.call
              n == Len(call.addresses)
          IN /\ ~TooMany([i \in 1..MaxAddresses |-> <<"a">>])
             /\ IF n > MaxAddresses
                THEN /\ call.err # ""
                     /\ call.results = <<>>
                     /\ UNCHANGED <<providers, pstate, frame, trace, wire, batch>>
                ELSE /\ call.err = ""
                     /\ Len(call.results) = n
                     /\ \A i \in 1..n :
                           /\ frame[i].pc = "done"
                           /\ frame[i].address = call.addresses[i]
                           /\ call.results[i].nil <=>
                                 (frame[i].err # NilError \/ ~frame[i].resp.Success)
                           /\ ~call.results[i].nil =>
                                 /\ call.results[i].Latitude = frame[i].resp.Latitude
                                 /\ call.results[i].Longitude = frame[i].resp.Longitude
                                 /\ call.results[i].Provider = frame[i].resp.Provider]_vars

\* A batch of an invalid and a valid address came back as a nil entry and a
\* coordinate of Kakao.
C26_Witness ==
    /\ client.call.pc = "returned"
    /\ Len(client.call.addresses) = 2
    /\ Len(client.call.results) = 2
    /\ client.call.results[1].nil
    /\ ~client.call.results[2].nil
    /\ client.call.results[2].Provider = "Kakao"
    /\ client.call.results[2].Latitude = RoundToSixDecimal(GoodLat)

\* The list of 101 addresses was rejected.
C26_Rejected ==
    /\ client.call.pc = "returned"
    /\ Len(client.call.addresses) = MaxAddresses + 1
    /\ client.call.err = TooManyError

(***************************************************************************)
(* C27: HealthCheck reports Healthy exactly when some configured           *)
(* provider's IsAvailable is true, and in particular reports false when    *)
(* every provider is disabled; Client.IsAvailable returns the same value;  *)
(* /health and /ready answer 503 exactly when it is false and 200          *)
(* otherwise.                                                              *)
(***************************************************************************)
C27_HealthyIffAvailable ==
    /\ HealthCheck.Healthy <=> (\E n \in 1..Len(providers) : IsAvailable(n))
    /\ (\A n \in 1..Len(providers) : IsDisabled(n)) => ~HealthCheck.Healthy
    /\ ClientIsAvailable <=> HealthCheck.Healthy
    /\ HealthStatusCode = (IF HealthCheck.Healthy THEN 200 ELSE 503)
    /\ ReadyStatusCode = (IF HealthCheck.Healthy THEN 200 ELSE 503)

\* What does hold: the claim without its case of disabled providers.
C27_HealthyIffIsAvailable ==
    /\ HealthCheck.Healthy <=> (\E n \in 1..Len(providers) : IsAvailable(n))
    /\ ClientIsAvailable <=> HealthCheck.Healthy
    /\ HealthStatusCode = (IF HealthCheck.Healthy THEN 200 ELSE 503)
    /\ ReadyStatusCode = (IF HealthCheck.Healthy THEN 200 ELSE 503)
    /\ (\A n \in 1..Len(providers) : IsDisabled(n) /\ providers[n].impl # "Kakao")
          => ~HealthCheck.Healthy

\* Every provider is disabled and the service is reported healthy.
C27_DisabledYetHealthy ==
    /\ Len(providers) >= 1
    /\ \A n \in 1..Len(providers) : IsDisabled(n)
    /\ HealthCheck.Healthy
    /\ HealthStatusCode = 200

\* Both providers were disabled by the orchestrator and the service is
\* reported unhealthy.
C27_DisabledAndUnhealthy ==
    /\ Len(providers) = 2
    /\ \A n \in 1..Len(providers) : IsDisabled(n)
    /\ ~HealthCheck.Healthy
    /\ ReadyStatusCode = 503

(***************************************************************************)
(* C28: a provider call made after the caller's context was cancelled      *)
(* fails with a SystemFailure-classified error, which is recorded as a     *)
(* failed attempt; no provider is disabled by it; and the loop goes on to  *)
(* the next provider, so that a cancelled call ends only after the last    *)
(* provider, with the all-failed outcome.                                  *)
(***************************************************************************)
C28_CancelledCallFallsBack ==
    [][\A c \in DOMAIN frame :
          /\ (frame[c].pc = "call" /\ frame[c].cancelled /\ trace'[c] # trace[c])
                => LET k == frame[c].i
                       e == trace'[c][k]
                   IN /\ GotClassified(e, "SYSTEM_FAILURE")
                      /\ e.ret.err.Fallback
                      /\ pstate' = pstate
                      /\ frame'[c].attempts =
                            Append(frame[c].attempts, FailedAttempt(k, e.ret.err.text))
                      /\ IF k < Len(providers)
                         THEN frame'[c].pc = "check" /\ frame'[c].i = k + 1
                         ELSE /\ frame'[c].pc = "done"
                              /\ frame'[c].resp.Provider = "none"
                              /\ ~frame'[c].resp.Success
          /\ (frame'[c].pc = "done" /\ frame'[c].cancelled)
                => /\ Len(trace'[c]) = Len(providers)
                   /\ ~frame'[c].resp.Success]_vars

\* The context was cancelled after vWorld had found nothing; Kakao was still
\* called, failed with SystemFailure and stayed enabled, and the call ended
\* with the all-failed outcome.
C28_Witness ==
    /\ frame["c1"].pc = "done"
    /\ frame["c1"].cancelled
    /\ Len(providers) = 2
    /\ Len(trace["c1"]) = 2
    /\ GotNoMatch(trace["c1"][1])
    /\ GotClassified(trace["c1"][2], "SYSTEM_FAILURE")
    /\ ~IsDisabled(2)
    /\ frame["c1"].resp.Provider = "none"
    /\ Len(frame["c1"].attempts) = 2

(***************************************************************************)
(* C29: an outcome has success=true exactly when the call ended on a match *)
(* whose coordinate, rounded to 6 decimal places, has its latitude in      *)
(* [-90, 90] and its longitude in [-180, 180], the bounds included; the    *)
(* outcome then carries each component of the provider's value rounded to  *)
(* 6 decimal places and names the provider that returned the match.        *)
(***************************************************************************)
C29_SuccessCarriesRoundedCoordinate ==
    \A c \in DOMAIN frame :
        frame[c].pc = "done" =>
            LET r == frame[c].resp
                k == Len(trace[c])
            IN /\ r.Success =>
                    /\ frame[c].err = NilError
                    /\ r.hasCoordinate
                    /\ InRange(r.Latitude, r.Longitude)
                    /\ k >= 1
                    /\ GotMatch(trace[c][k])
                    /\ r.Latitude = NearestSixDecimal(trace[c][k].ret.result.Latitude)
                    /\ r.Longitude = NearestSixDecimal(trace[c][k].ret.result.Longitude)
                    /\ r.Provider = providers[k].name
               /\ (k >= 1 /\ GotUsableMatch(trace[c][k])) => r.Success

\* A match a little beyond the south pole and the date line was rounded onto
\* them and returned as a success.
C29_Witness ==
    /\ frame["c1"].pc = "done"
    /\ frame["c1"].resp.Success
    /\ Len(trace["c1"]) = 2
    /\ trace["c1"][2].ret.result.Latitude = -PoleLat
    /\ frame["c1"].resp.Latitude = -900000000
    /\ frame["c1"].resp.Longitude = -1800000000
    /\ frame["c1"].resp.Provider = "Provider2"

\* The distance of a from b.
Distance(a, b) == IF a < b THEN b - a ELSE a - b

\* out is val rounded to 6 decimal places, a tie going away from zero.
RoundedHalfAway(val, out) ==
    /\ out % 10 = 0
    /\ Distance(out, val) <= 5
    /\ Distance(out, val) = 5 => Distance(out, 0) > Distance(val, 0)
    /\ (val < 0) = (out < 0)

TrailOf(c) == IF frame[c].pc = "done" THEN frame[c].resp.Attempts ELSE frame[c].attempts

(***************************************************************************)
(* C31: at every point of a Geocode call and in its outcome, the attempt   *)
(* trail is an in-order prefix of the configured provider list: entry k    *)
(* names the k-th provider, there are never more entries than providers,   *)
(* no provider is named twice, and the loop has run exactly one iteration  *)
(* per entry, so that no provider is invoked more than once in a call.     *)
(***************************************************************************)
C31_TrailIsPrefixOfProviders ==
    \A c \in DOMAIN frame :
        LET a == TrailOf(c)
        IN /\ Len(a) <= Len(providers)
           /\ \A k \in 1..Len(a) : a[k].Provider = providers[k].name
           /\ \A j, k \in 1..Len(a) : a[j].Provider = a[k].Provider => j = k
           /\ Len(trace[c]) <= Len(providers)
           /\ frame[c].pc = "done" /\ frame[c].resp.Provider # "" => Len(trace[c]) = Len(a)
           /\ frame[c].pc \in {"check", "call"} =>
                 /\ Len(trace[c]) = Len(a)
                 /\ frame[c].i = Len(a) + 1

\* Both providers were invoked, one after the other, and the trail names
\* them in order.
C31_Witness ==
    /\ frame["c1"].pc = "done"
    /\ Len(providers) = 2
    /\ Len(trace["c1"]) = 2
    /\ trace["c1"][1].invoked /\ trace["c1"][2].invoked
    /\ Len(frame["c1"].resp.Attempts) = 2
    /\ frame["c1"].resp.Attempts[1].Provider = providers[1].name
    /\ frame["c1"].resp.Attempts[2].Provider = providers[2].name

(***************************************************************************)
(* C32: during a batch a step that writes the results writes one slot      *)
(* only, the slot of the worker taking the step, which was nil until then  *)
(* and is non-nil afterwards; a slot is non-nil exactly when its worker    *)
(* has finished, so no slot is written twice or by two workers; and once   *)
(* the barrier is passed every slot holds a non-nil outcome.               *)
(***************************************************************************)
C32_EachSlotWrittenOnceByItsOwner ==
    [][/\ (batch.pc \in {"dispatch", "wait"} /\ batch'.results # batch.results)
            => \E i \in Workers :
                  /\ batch.w[i] = "holding" /\ batch'.w[i] = "finished"
                  /\ batch.results[i] = NoResponse
                  /\ batch'.results[i] # NoResponse
                  /\ \A j \in Workers \ {i} :
                        /\ batch'.results[j] = batch.results[j]
                        /\ batch'.w[j] = batch.w[j]
       /\ batch'.pc \in {"dispatch", "wait"}
            => \A i \in 1..Len(batch'.addresses) :
                  (batch'.results[i] # NoResponse) <=> (batch'.w[i] = "finished")
       /\ (batch'.pc = "returned" /\ Len(batch'.addresses) >= 1)
            => /\ Len(batch'.resp.Results) = Len(batch'.addresses)
               /\ \A i \in 1..Len(batch'.addresses) :
                     /\ batch'.resp.Results[i] # NoResponse
                     /\ batch'.w[i] = "finished"]_vars

\* The second worker wrote its slot while the first one was still inside
\* Geocode.
C32_Witness ==
    /\ batch.pc = "wait"
    /\ Len(batch.addresses) = 2
    /\ batch.w[1] = "holding" /\ batch.results[1] = NoResponse
    /\ batch.w[2] = "finished" /\ batch.results[2] # NoResponse
    /\ batch.results[2].Success

\* The HTTP answer of a GET, without the tag of the request it answered.
AnswerOf(sent) == [fld \in DOMAIN sent \ {"req"} |-> sent[fld]]

(***************************************************************************)
(* C33: the type hint reaches vWorld only: with a hint of ROAD or PARCEL   *)
(* (in either case) vWorld makes the one request of that type, without a   *)
(* hint it starts with ROAD; Kakao is always asked through its plain       *)
(* address search and returns what that search gives, whatever the hint;   *)
(* and every worker of a batch orchestrates its own address with an empty  *)
(* hint.                                                                   *)
(***************************************************************************)
C33_HintReachesVWorldOnly ==
    /\ \A c \in DOMAIN frame : \A k \in Indexes(c) :
          LET hint == frame[c].addressType
              address == NormalizeAddress(frame[c].address)
              w == wire[c][k]
          IN trace[c][k].invoked =>
                /\ (providers[k].impl = "vWorld" /\ hint # "") =>
                      /\ Len(w) = 1
                      /\ w[1].req = ToUpper(hint)
                      /\ trace[c][k].ret =
                            GeocodeWithType(address, hint, AnswerOf(w[1]), AnswerOf(w[1]))
                /\ (providers[k].impl = "vWorld" /\ hint = "") =>
                      /\ w[1].req = "ROAD"
                      /\ trace[c][k].ret =
                            VWorldGeocode(address, AnswerOf(w[1]), AnswerOf(w[Len(w)]))
                /\ providers[k].impl = "Kakao" =>
                      /\ Len(w) = 1
                      /\ w[1].req = "address"
                      /\ trace[c][k].ret = KakaoGeocode(address, AnswerOf(w[1]))
                /\ providers[k].impl = "mock" => w = <<>>
    /\ \A i \in 1..Len(batch.addresses) :
          batch.w[i] \in {"holding", "finished"} =>
              /\ frame[i].addressType = ""
              /\ frame[i].address = batch.addresses[i]

\* A direct call with the hint "parcel": vWorld made one PARCEL request and
\* found nothing, Kakao was asked through its address search and matched.
C33_Witness ==
    /\ batch.pc = "idle"
    /\ frame[1].pc = "done"
    /\ frame[1].addressType = "parcel"
    /\ Len(trace[1]) = 2
    /\ Len(wire[1][1]) = 1 /\ wire[1][1][1].req = "PARCEL"
    /\ GotNoMatch(trace[1][1])
    /\ wire[1][2][1].req = "address"
    /\ GotMatch(trace[1][2])
    /\ frame[1].resp.Success

\* A batch worker is inside Geocode with an empty hint and has made the ROAD
\* and the PARCEL request of the plain call.
C33_BatchWorker ==
    /\ batch.pc = "wait"
    /\ batch.w[1] = "holding"
    /\ frame[1].addressType = ""
    /\ Len(trace[1]) >= 1
    /\ Len(wire[1][1]) = 2

\* Answer a of vWorld is HTTP 200 with status ERROR and a text that mentions
\* the API key.
KeyError(a) ==
    /\ a.net = "" /\ a.code = 200 /\ a.json /\ a.status = "ERROR"
    /\ Contains(a.errText, KeyWordKo) \/ Contains(a.errText, "AUTH")

\* Answer a of vWorld is HTTP 200 with status ERROR and any other text.
OtherError(a) ==
    /\ a.net = "" /\ a.code = 200 /\ a.json /\ a.status = "ERROR"
    /\ ~(Contains(a.errText, KeyWordKo) \/ Contains(a.errText, "AUTH"))

(***************************************************************************)
(* C34: when vWorld answers a request of a call with HTTP 200 and status   *)
(* ERROR, then, unless the call still ends in a match, a text that         *)
(* mentions the API key makes the call return a classified Unauthorized    *)
(* error and vWorld is disabled; when all its answers are ERROR with       *)
(* another text, the call returns a success=false result with a nil error  *)
(* and vWorld stays enabled.                                               *)
(***************************************************************************)
C34_ErrorTextDecides ==
    \A c \in DOMAIN frame : \A k \in Indexes(c) :
        LET e == trace[c][k]
            w == wire[c][k]
        IN (e.invoked /\ providers[k].impl = "vWorld" /\ Len(w) >= 1) =>
              /\ ((\E j \in 1..Len(w) : KeyError(w[j])) /\ ~GotMatch(e)) =>
                    GotClassified(e, "UNAUTHORIZED") /\ IsDisabled(k)
              /\ (\A j \in 1..Len(w) : OtherError(w[j])) =>
                    GotNoMatch(e) /\ ~IsDisabled(k)

\* What does hold: the answer to the last request of the call decides.
C34_LastAnswerDecides ==
    \A c \in DOMAIN frame : \A k \in Indexes(c) :
        LET e == trace[c][k]
            w == wire[c][k]
        IN (e.invoked /\ providers[k].impl = "vWorld" /\ Len(w) >= 1) =>
              /\ KeyError(w[Len(w)]) =>
                    GotClassified(e, "UNAUTHORIZED") /\ IsDisabled(k) /\ WentOn(c, k)
              /\ OtherError(w[Len(w)]) =>
                    GotNoMatch(e) /\ ~IsDisabled(k) /\ WentOn(c, k)

\* The ROAD request was answered with an ERROR that mentions the key, the
\* PARCEL request found nothing, and vWorld is still enabled.
C34_KeyErrorMasked ==
    /\ frame["c1"].pc = "done"
    /\ Len(trace["c1"]) >= 1
    /\ providers[1].impl = "vWorld"
    /\ Len(wire["c1"][1]) = 2
    /\ KeyError(wire["c1"][1][1])
    /\ wire["c1"][1][2].status = "NOT_FOUND"
    /\ GotNoMatch(trace["c1"][1])
    /\ ~IsDisabled(1)

\* The workers whose orchestration is in a provider call.
InProviderCall == {i \in Workers : batch.w[i] = "holding" /\ frame[i].pc = "call"}

Invokes(c) ==
    /\ Len(trace'[c]) = Len(trace[c]) + 1
    /\ trace'[c][Len(trace'[c])].invoked

(***************************************************************************)
(* C36: under concurrent Geocode calls, no call to a provider is started   *)
(* while that provider's disabled flag is set.                             *)
(***************************************************************************)
C36_NoCallAfterDisable ==
    [][\A c \in DOMAIN frame : Invokes(c) => ~IsDisabled(frame[c].i)]_vars

(***************************************************************************)
(* C36, amended: under concurrent Geocode calls a worker starts a call to  *)
(* a provider only after its own availability check of that provider, made *)
(* in the step before with nothing of its own in between, returned true;   *)
(* the check and the call are two steps, and a worker that saw             *)
(* isAvailable=true still invokes the provider when another worker has     *)
(* disabled it in between.                                                 *)
(***************************************************************************)
C36_CallOnlyAfterOwnCheck ==
    [][\A c \in DOMAIN frame :
          /\ (frame'[c].pc = "call" /\ frame[c].pc # "call")
                => /\ frame[c].pc = "check"
                   /\ IsAvailable(frame[c].i)
                   /\ frame'[c].i = frame[c].i
                   /\ pstate' = pstate
          /\ Invokes(c) => frame[c].pc = "call"
          /\ (frame[c].pc = "call" /\ frame'[c] # frame[c]) => Invokes(c)]_vars

\* Both callers found vWorld available, and both invoked it and were answered
\* Unauthorized: the second of these calls was made with the flag set.
C36_Witness ==
    /\ Len(providers) >= 1
    /\ providers[1].impl = "vWorld"
    /\ IsDisabled(1)
    /\ \A c \in AllCallers :
          /\ Len(trace[c]) >= 1
          /\ ~snap[c][1].disabled
          /\ GotClassified(trace[c][1], "UNAUTHORIZED")

(***************************************************************************)
(* C37: in every Geocode outcome, success is true only if the attempt      *)
(* trail is non-empty and its last attempt has success=true, and no        *)
(* attempt before the last is marked successful; an outcome whose last     *)
(* attempt is marked successful has success=true, except the outcome       *)
(* "invalid coordinates", returned when the coordinate of that provider's  *)
(* match was rejected after the attempt had been recorded as successful.   *)
(***************************************************************************)
LastSucceeded(a) == Len(a) > 0 /\ a[Len(a)].Success

\* As claimed: success iff the last attempt succeeded, and no successful
\* attempt in a failed outcome.
C37_SuccessIffLastAttemptSucceeded ==
    \A c \in DOMAIN frame :
        frame[c].pc = "done" =>
            LET r == frame[c].resp
            IN /\ r.Success <=> LastSucceeded(r.Attempts)
               /\ ~r.Success => \A k \in 1..Len(r.Attempts) : ~r.Attempts[k].Success

C37_SuccessOnlyIfLastAttemptSucceeded ==
    \A c \in DOMAIN frame :
        frame[c].pc = "done" =>
            LET r == frame[c].resp
                a == r.Attempts
            IN /\ r.Success => LastSucceeded(a)
               /\ \A k \in 1..(Len(a) - 1) : ~a[k].Success
               /\ (LastSucceeded(a) /\ ~r.Success)
                     <=> /\ Len(trace[c]) > 0
                         /\ GotUnusableMatch(trace[c][Len(trace[c])])
               /\ (LastSucceeded(a) /\ ~r.Success)
                     => /\ r.Error = "invalid coordinates"
                        /\ ~r.hasCoordinate

\* A call that succeeded at the second provider after the first one failed.
C37_Witness ==
    /\ frame["c1"].pc = "done"
    /\ frame["c1"].resp.Success
    /\ Len(frame["c1"].resp.Attempts) = 2
    /\ ~frame["c1"].resp.Attempts[1].Success
    /\ frame["c1"].resp.Attempts[2].Success

\* The outcome "invalid coordinates": success=false over a trail whose last
\* attempt is marked successful.
C37_RejectedMatch ==
    /\ frame["c1"].pc = "done"
    /\ ~frame["c1"].resp.Success
    /\ LastSucceeded(frame["c1"].resp.Attempts)
    /\ frame["c1"].resp.Error = "invalid coordinates"

(***************************************************************************)
(* C38: a step of a Geocode call changes a provider's disabled flag or     *)
(* disable reason only if it is the invocation of that provider and the    *)
(* provider returned a classified Unauthorized or RateLimitExceeded error; *)
(* so a call with an invalid address, and a call whose provider outcomes   *)
(* are all of another sort, returns with every provider as it was when the *)
(* call started.                                                           *)
(***************************************************************************)
DisablingError(e) ==
    GotClassified(e, "UNAUTHORIZED") \/ GotClassified(e, "RATE_LIMIT_EXCEEDED")

LastOf(seq) == seq[Len(seq)]

C38_OnlyKeyAndQuotaErrorsChangeProviders ==
    [][/\ \A n \in 1..Len(providers) :
             pstate'[n] # pstate[n]
                => \E c \in DOMAIN frame :
                      /\ Invokes(c)
                      /\ frame[c].i = n
                      /\ DisablingError(LastOf(trace'[c]))
       /\ \A c \in DOMAIN frame :
             (frame'[c].pc = "done" /\ \A k \in 1..Len(trace'[c]) : ~DisablingError(trace'[c][k]))
                => pstate' = snap'[c]]_vars

\* A call that went through both providers, the first failing with a
\* classified error of another sort, and left both providers as they were.
C38_Witness ==
    /\ frame["c1"].pc = "done"
    /\ Len(trace["c1"]) = 2
    /\ \E t \in {"NOT_FOUND", "SYSTEM_FAILURE", "TIMEOUT"} : GotClassified(trace["c1"][1], t)
    /\ pstate = snap["c1"]
    /\ \A n \in 1..Len(providers) : ~IsDisabled(n)

\* A key error did change the provider it came from.
C38_Disabled ==
    /\ frame["c1"].pc = "done"
    /\ \E k \in 1..Len(trace["c1"]) :
          /\ DisablingError(trace["c1"][k])
          /\ IsDisabled(k)
          /\ ~snap["c1"][k].disabled

(***************************************************************************)
(* C39: with an empty address type, when the vWorld ROAD request returned  *)
(* a classified error and the PARCEL request did not succeed, the adapter  *)
(* has returned an error to the orchestrator, not a plain success=false    *)
(* result.                                                                 *)
(***************************************************************************)
\* What geocodeWithType made of the ROAD request of invocation k of caller c.
RoadOutcome(c, k) == geocodeWithType(frame[c].address, "ROAD", AnswerOf(wire[c][k][1]))

\* Invocation k of caller c is a vWorld call without a type that sent both
\* requests.
AutoCall(c, k) ==
    /\ trace[c][k].invoked
    /\ providers[k].impl = "vWorld"
    /\ Len(wire[c][k]) = 2
    /\ wire[c][k][1].req = "ROAD"
    /\ wire[c][k][2].req = "PARCEL"

C39_RoadErrorNeverMasked ==
    \A c \in DOMAIN frame : \A k \in Indexes(c) :
        (/\ AutoCall(c, k)
         /\ IsClassifiedError(RoadOutcome(c, k).err)
         /\ ~GotMatch(trace[c][k]))
            => trace[c][k].ret.err # NilError

\* The ROAD request got HTTP 401 or 429, the PARCEL request found nothing, and
\* the call went on with vWorld enabled and a plain "address not found" attempt.
C39_RoadErrorMasked ==
    /\ frame["c1"].pc = "done"
    /\ Len(trace["c1"]) >= 1
    /\ AutoCall("c1", 1)
    /\ wire["c1"][1][1].code \in {401, 429}
    /\ GotNoMatch(trace["c1"][1])
    /\ frame["c1"].resp.Attempts[1].Error = "address not found"
    /\ ~IsDisabled(1)

(***************************************************************************)
(* C40: when every provider call returns, a GeocodeBatch call that has     *)
(* started always returns, with every worker finished, no semaphore slot   *)
(* held and the WaitGroup counter at zero; on the way the slot count goes  *)
(* up only by one worker taking a slot and down only by one worker that    *)
(* holds a slot finishing, and no worker finishes without holding one: so  *)
(* every worker acquires a slot and releases it exactly once, and no       *)
(* interleaving deadlocks or leaves a slot held.                           *)
(***************************************************************************)
BatchRunning == batch.pc \in {"dispatch", "wait"}

BatchOver ==
    /\ batch.pc = "returned"
    /\ batch.sem = 0
    /\ batch.wg = 0
    /\ \A i \in Workers : batch.w[i] = "finished"

\* The workers that take a slot, and those that finish, in a step.
Acquiring == {i \in Workers : batch.w[i] = "spawned" /\ batch'.w[i] = "holding"}
Releasing == {i \in Workers : batch.w[i] = "holding" /\ batch'.w[i] = "finished"}

SlotsFollowWorkers ==
    BatchRunning /\ batch'.pc # "idle" /\ batch'.addresses = batch.addresses
       => /\ batch'.sem = batch.sem + Cardinality(Acquiring) - Cardinality(Releasing)
          /\ Cardinality(Acquiring) + Cardinality(Releasing) <= 1
          /\ \A i \in Workers :
                batch'.w[i] # batch.w[i]
                   => \/ batch.w[i] = "unborn" /\ batch'.w[i] = "spawned"
                      \/ i \in Acquiring
                      \/ i \in Releasing

C40_BatchTerminatesAndFreesSlots ==
    /\ BatchRunning ~> BatchOver
    /\ [][SlotsFollowWorkers]_vars

\* A call with one address more than there are slots has returned, after its
\* last worker had to wait for a slot.
C40_Witness ==
    /\ BatchOver
    /\ Len(batch.addresses) = maxConcurrent + 1

\* Ten workers hold the ten slots and the eleventh waits for one.
C40_Waiting ==
    /\ batch.pc = "wait"
    /\ batch.sem = maxConcurrent
    /\ \E i \in Workers : batch.w[i] = "spawned"

====
